---- MODULE Spec2Model ----
(***************************************************************************)
(* Model of the compile/execute sandbox of code_warrior:                   *)
(*   src/src/compiler/mod.rs             mode selection and orchestrator   *)
(*   src/src/compiler/sandbox.rs         bubblewrap and fallback executors *)
(*   src/src/compiler/seccomp_sandbox.rs seccomp filter and executor       *)
(*                                                                         *)
(*   src/src/levels/harness.rs           test harness generator            *)
(*   src/src-api/src/main.rs             submission handlers               *)
(*                                                                         *)
(* The specifications of the module:                                       *)
(*   SpecFilter  build_seccomp_filter step by step, then a program running *)
(*               under the built filter issuing system calls               *)
(*   Spec        process start (detect_sandbox_mode, CCompiler::new) and   *)
(*               one caller of compile_and_run_with_input                  *)
(*   SpecPair    the same with two callers                                 *)
(*   SpecHarness generate_harness applied to signatures and test cases     *)
(*   SpecSuite   submit_code and submit_quest_code running a submission    *)
(***************************************************************************)
EXTENDS Integers, Sequences, FiniteSets, TLC

VARIABLES
    \* ---- seccomp filter (SpecFilter) ----
    frules,      \* the BTreeMap<i64, Vec<SeccompRule>> `rules` under construction
    fpc,         \* position in build_seccomp_filter
    ffilter,     \* the SeccompFilter once built: rules, default and match action
    fprog,       \* the filtered program: "none" | "running" | "killed"
    fcall,       \* the last system call the filtered program issued
    fverdict,    \* the filter's action on fcall
    fchildren,   \* new processes the filtered program has created
    fthreads,    \* new threads the filtered program has created
    \* ---- process start and orchestrator (Spec) ----
    env,         \* what the probes of detect_sandbox_mode observe
    startup,     \* "init" | "running" | "aborted"
    sandbox_mode,\* CCompiler.sandbox_mode
    sandbox_config, \* CCompiler.sandbox_config
    now,         \* SystemTime::now() in milliseconds
    dirs,        \* scratch directories, keyed by the timestamp in their name
    calls,       \* the activations of compile_and_run_with_input
    active,      \* the activations the callers use in this run
    workload,    \* the sources the callers submit in this run
    orch_filtered, \* whether a seccomp filter was installed in the orchestrator
    \* ---- harness generator (SpecHarness) ----
    hsig,        \* the FunctionSignature given to generate_harness
    hcase,       \* the TestCase given to generate_harness
    hout,        \* what generate_harness returned
    \* ---- submission handlers (SpecSuite) ----
    submission,  \* the request: level or quest, test_only
    suite,       \* the handler's position, its locals and the calls it has made
    response,    \* what the handler returned
    game_state,  \* the GameState of the player's session
    \* ---- progression (SpecProgress) ----
    pcall,       \* the last call on the game state: its arguments, result and
                 \* the state it was made on
    \* ---- rate limiter (SpecLimiter) ----
    entries,     \* RateLimiter.entries: identifier -> RateLimitEntry
    instant,     \* the monotonic clock read by Instant::now(), in seconds
    checks,      \* the activations of check_rate_limit
    rl_log,      \* the calls that held the entry, in the order they held it
    \* ---- overlapping requests of one user (SpecSession) ----
    reqs,        \* the handlers in flight: position, request and local GameState
    db           \* the game_state column of the user's row in the database

filterVars == <<frules, fpc, ffilter, fprog, fcall, fverdict, fchildren, fthreads>>
pipeVars == <<env, startup, sandbox_mode, sandbox_config, now, dirs, calls, active, workload,
             orch_filtered>>
graderVars == <<hsig, hcase, hout, submission, suite, response, game_state>>
unitVars == <<pcall, entries, instant, checks, rl_log, reqs, db>>
harnessVars == <<hsig, hcase, hout>>
limiterVars == <<entries, instant, checks, rl_log>>
sessionVars == <<reqs, db>>
vars == <<frules, fpc, ffilter, fprog, fcall, fverdict, fchildren, fthreads,
          env, startup, sandbox_mode, sandbox_config, now, dirs, calls, active, workload,
          orch_filtered,
          hsig, hcase, hout, submission, suite, response, game_state,
          pcall, entries, instant, checks, rl_log, reqs, db>>

(***************************************************************************)
(* Bit operations on naturals (system-call arguments are 64-bit words; all *)
(* values used are far below 2^64).                                        *)
(***************************************************************************)
RECURSIVE BitAnd(_, _)
BitAnd(a, b) ==
    IF a = 0 \/ b = 0 THEN 0
    ELSE (a % 2) * (b % 2) + 2 * BitAnd(a \div 2, b \div 2)

Range(s) == {s[i] : i \in DOMAIN s}

(***************************************************************************)
(* seccomp_sandbox.rs: build_seccomp_filter                                *)
(***************************************************************************)
\* The vec! of allowed system calls, in source order.
allowed_syscalls ==
    << "execve", "execveat",
       "read", "write", "close", "fstat", "lseek", "dup", "dup2", "dup3",
       "pipe", "pipe2",
       "openat", "newfstatat", "readlinkat", "access", "faccessat",
       "faccessat2", "statx", "readlink", "getcwd",
       "brk", "mmap", "munmap", "mprotect", "mremap",
       "clone", "clone3", "futex", "set_robust_list", "get_robust_list",
       "set_tid_address", "gettid", "tgkill", "sched_yield",
       "sched_getaffinity", "nanosleep", "clock_nanosleep", "rseq",
       "getpid", "getppid", "getuid", "geteuid", "getgid", "getegid",
       "rt_sigaction", "rt_sigprocmask", "rt_sigreturn", "sigaltstack",
       "exit", "exit_group",
       "arch_prctl", "getrandom", "clock_gettime", "gettimeofday", "time",
       "times", "uname", "getrlimit", "prlimit64", "prctl",
       "ioctl", "fcntl", "poll", "ppoll", "writev", "readv",
       "msync", "madvise" >>

\* CLONE_THREAD, the mask and the value of the condition on clone.
CLONE_THREAD == 65536

\* SeccompCondition::new(0, Qword, MaskedEq(0x10000), 0x10000), alone in its rule.
CloneRule ==
    << [arg_index |-> 0, op |-> "MaskedEq", mask |-> CLONE_THREAD, val |-> CLONE_THREAD] >>

\* BTreeMap::insert: the value stored under the key is replaced.
MapInsert(m, k, v) == (k :> v) @@ m

\* The mutation: the entry API that keeps a value already stored under the key.
MapInsertKeepOld(m, k, v) == m @@ (k :> v)

\* The mutation: the conditional rule does not replace the entry of the loop.
InsertCloneRuleKeepOld(m) == MapInsertKeepOld(m, "clone", << CloneRule >>)

\* rules.insert(libc::SYS_clone, vec![rule]) after the loop.
InsertCloneRule(m) == MapInsert(m, "clone", << CloneRule >>)

\* for syscall in allowed_syscalls { rules.insert(syscall, vec![]) }, first n turns.
RECURSIVE InsertAllowed(_)
InsertAllowed(n) ==
    IF n = 0 THEN << >>
    ELSE MapInsert(InsertAllowed(n - 1), allowed_syscalls[n], << >>)

\* SeccompFilter::new(rules, KillProcess, Allow, x86_64)
MakeFilter(rules) ==
    [rules |-> rules, default_action |-> "KillProcess", match_action |-> "Allow"]

\* The filter build_seccomp_filter returns.
build_seccomp_filter ==
    MakeFilter(InsertCloneRule(InsertAllowed(Len(allowed_syscalls))))

\* A system call as the filter sees it: its name and first argument. `cflags`
\* are the clone flags the kernel acts on: args[0] for clone, the flags field of
\* the struct clone_args that args[0] points to for clone3.
ConditionHolds(c, sc) ==
    /\ c.op = "MaskedEq"
    /\ c.arg_index = 0
    /\ BitAnd(sc.arg0, c.mask) = c.val

RuleMatches(rule, sc) == \A i \in DOMAIN rule : ConditionHolds(rule[i], sc)

\* The action of a filter on a system call: a system call with no entry gets the
\* default action; an entry with an empty rule list always matches; otherwise the
\* match action applies iff some rule's conditions all hold.
Evaluate(f, sc) ==
    IF sc.nr \notin DOMAIN f.rules THEN f.default_action
    ELSE IF f.rules[sc.nr] = << >> THEN f.match_action
    ELSE IF \E i \in DOMAIN f.rules[sc.nr] : RuleMatches(f.rules[sc.nr][i], sc)
         THEN f.match_action
         ELSE f.default_action

(***************************************************************************)
(* The system calls a program may issue, and what the kernel does with one *)
(* that the filter lets through.                                           *)
(***************************************************************************)
NetworkSyscalls ==
    {"socket", "socketpair", "connect", "bind", "listen", "accept", "accept4",
     "sendto", "recvfrom", "sendmsg", "recvmsg", "shutdown",
     "getsockname", "getpeername", "getsockopt", "setsockopt"}

FileOpenSyscalls == {"open", "openat", "openat2", "creat"}

ExecSyscalls == {"execve", "execveat"}

\* System calls outside the allow list that the modelled programs try.
ProbedSyscalls ==
    {"fork", "vfork", "ptrace", "socket", "connect", "bind", "sendto",
     "open", "kill", "unlink"}

\* Values of the clone flags: 0; SIGCHLD (classic fork); CLONE_VM; CLONE_THREAD
\* alone; CLONE_THREAD|CLONE_VM; the flags of pthread_create; the flags of
\* glibc's fork (CLONE_CHILD_SETTID|CLONE_CHILD_CLEARTID|SIGCHLD).
CloneFlagValues == {0, 17, 256, 65536, 65792, 4001536, 18874385}

\* User-space addresses a clone3 caller passes as its first argument (the second
\* has the bit of CLONE_THREAD set).
ClonePointers == {4096, 2147418112}

SyscallInvocations ==
    {[nr |-> n, arg0 |-> 0, cflags |-> 0] :
        n \in (Range(allowed_syscalls) \cup ProbedSyscalls) \ {"clone", "clone3"}}
    \cup {[nr |-> "clone", arg0 |-> f, cflags |-> f] : f \in CloneFlagValues}
    \cup {[nr |-> "clone3", arg0 |-> p, cflags |-> f] :
            p \in ClonePointers, f \in CloneFlagValues}

\* A system call that, once let through, starts a new process: fork, vfork, and
\* clone or clone3 without CLONE_THREAD ("CLONE_THREAD must be set for thread
\* creation").
CreatesProcess(sc) ==
    \/ sc.nr \in {"fork", "vfork"}
    \/ sc.nr \in {"clone", "clone3"} /\ BitAnd(sc.cflags, CLONE_THREAD) = 0

CreatesThread(sc) ==
    sc.nr \in {"clone", "clone3"} /\ BitAnd(sc.cflags, CLONE_THREAD) = CLONE_THREAD

(***************************************************************************)
(* SpecFilter: build_seccomp_filter one statement at a time, then a        *)
(* program that runs under the built filter.                               *)
(***************************************************************************)
MaxSpawn == 2

NoFilter == [rules |-> << >>, default_action |-> "none", match_action |-> "none"]
NoCall == [nr |-> "none", arg0 |-> 0, cflags |-> 0]

FilterLoopDone == Len(allowed_syscalls)
FilterCloneDone == Len(allowed_syscalls) + 1
FilterBuilt == Len(allowed_syscalls) + 2

PipeIdle ==
    /\ env = [os |-> "linux", feature |-> TRUE, prctl |-> TRUE,
              bwrap |-> "absent", flag |-> "unset"]
    /\ startup = "init"
    /\ sandbox_mode = "none"
    /\ sandbox_config = "none"
    /\ now = 0
    /\ dirs = << >>
    /\ calls = << >>
    /\ active = {}
    /\ workload = {}
    /\ orch_filtered = FALSE

\* No harness generated, no submission made.
HarnessIdle == hsig = "none" /\ hcase = "none" /\ hout = << >>

SuiteIdle ==
    /\ submission = "none"
    /\ suite = "none"
    /\ response = "none"
    /\ game_state = "none"

GraderIdle == HarnessIdle /\ SuiteIdle

\* No call on a progression made.
ProgressIdle == pcall = "none"

\* No rate limiter constructed.
LimiterIdle == entries = "none" /\ instant = 0 /\ checks = "none" /\ rl_log = "none"

\* No overlapping requests.
SessionIdle == reqs = "none" /\ db = "none"

UnitIdle == ProgressIdle /\ LimiterIdle /\ SessionIdle

FilterInit ==
    /\ frules = << >>
    /\ fpc = 0
    /\ ffilter = NoFilter
    /\ fprog = "none"
    /\ fcall = NoCall
    /\ fverdict = "none"
    /\ fchildren = 0
    /\ fthreads = 0

\* One turn of the loop over allowed_syscalls.
FilterLoopInsert ==
    /\ fpc < FilterLoopDone
    /\ frules' = MapInsert(frules, allowed_syscalls[fpc + 1], << >>)
    /\ fpc' = fpc + 1
    /\ UNCHANGED <<ffilter, fprog, fcall, fverdict, fchildren, fthreads>>
    /\ UNCHANGED <<pipeVars, graderVars, unitVars>>

\* The special rule for clone.
FilterInsertClone ==
    /\ fpc = FilterLoopDone
    /\ frules' = InsertCloneRule(frules)
    /\ fpc' = FilterCloneDone
    /\ UNCHANGED <<ffilter, fprog, fcall, fverdict, fchildren, fthreads>>
    /\ UNCHANGED <<pipeVars, graderVars, unitVars>>

\* SeccompFilter::new and the compilation to BPF.
FilterNew ==
    /\ fpc = FilterCloneDone
    /\ ffilter' = MakeFilter(frules)
    /\ fpc' = FilterBuilt
    /\ UNCHANGED <<frules, fprog, fcall, fverdict, fchildren, fthreads>>
    /\ UNCHANGED <<pipeVars, graderVars, unitVars>>

\* The child applied the filter in pre_exec and exec'd the compiled binary.
FilterApplied ==
    /\ fpc = FilterBuilt
    /\ fprog = "none"
    /\ fprog' = "running"
    /\ UNCHANGED <<frules, fpc, ffilter, fcall, fverdict, fchildren, fthreads>>
    /\ UNCHANGED <<pipeVars, graderVars, unitVars>>

\* The filtered program issues a system call; the filter kills it or lets the
\* call through.
ProgSyscall ==
    /\ fprog = "running"
    /\ \E sc \in SyscallInvocations :
        /\ CreatesProcess(sc) => fchildren < MaxSpawn
        /\ CreatesThread(sc) => fthreads < MaxSpawn
        /\ fcall' = sc
        /\ fverdict' = Evaluate(ffilter, sc)
        /\ IF Evaluate(ffilter, sc) = "Allow"
           THEN /\ fprog' = "running"
                /\ fchildren' = IF CreatesProcess(sc) THEN fchildren + 1 ELSE fchildren
                /\ fthreads' = IF CreatesThread(sc) THEN fthreads + 1 ELSE fthreads
           ELSE /\ fprog' = "killed"
                /\ UNCHANGED <<fchildren, fthreads>>
    /\ UNCHANGED <<frules, fpc, ffilter>>
    /\ UNCHANGED <<pipeVars, graderVars, unitVars>>

FilterNext ==
    \/ FilterLoopInsert
    \/ FilterInsertClone
    \/ FilterNew
    \/ FilterApplied
    \/ ProgSyscall

FilterSpecInit == FilterInit /\ PipeIdle /\ GraderIdle /\ UnitIdle

SpecFilter == FilterSpecInit /\ [][FilterNext]_vars

\* The filter built statement by statement is the one the function returns.
FilterBuildAgrees == fpc = FilterBuilt => ffilter = build_seccomp_filter

(***************************************************************************)
(* mod.rs: detect_sandbox_mode and CCompiler::new                          *)
(***************************************************************************)
\* What the probes can observe. `os` is the target_os of the build (linux,
\* macos, or another unix, for which freebsd stands). `feature` is the cargo feature "seccomp";
\* `prctl` is prctl(PR_GET_NO_NEW_PRIVS) >= 0, which only the linux build with
\* the feature evaluates; `bwrap` is "absent" (`which bwrap` fails), "broken"
\* (present, the smoke test fails) or "works"; `flag` is the value of
\* ALLOW_INSECURE_SANDBOX.
Envs ==
    {e \in [os : {"linux", "macos", "freebsd"}, feature : BOOLEAN, prctl : BOOLEAN,
            bwrap : {"absent", "broken", "works"},
            flag : {"unset", "1", "true"}] :
        e.prctl => (e.os = "linux" /\ e.feature)}

is_seccomp_available(e) == e.os = "linux" /\ e.feature /\ e.prctl

is_bwrap_available(e) == e.bwrap # "absent"

test_bwrap_namespaces(e) == e.bwrap = "works"

\* The mutation: any value of the variable counts.
InsecureAllowedAnyValue(e) == e.flag # "unset"

\* std::env::var("ALLOW_INSECURE_SANDBOX").map(|v| v == "1").unwrap_or(false)
InsecureAllowed(e) == e.flag = "1"

\* The mutation: bubblewrap is tried before seccomp.
detect_sandbox_mode_bwrap_first(e) ==
    IF is_bwrap_available(e) /\ test_bwrap_namespaces(e) THEN "Bubblewrap"
    ELSE IF is_seccomp_available(e) THEN "Seccomp"
    ELSE IF e.os = "macos" THEN "Fallback"
    ELSE IF InsecureAllowed(e) THEN "Fallback"
    ELSE "panic"

\* The mode detect_sandbox_mode returns, or "panic".
detect_sandbox_mode(e) ==
    IF is_seccomp_available(e) THEN "Seccomp"
    ELSE IF is_bwrap_available(e) /\ test_bwrap_namespaces(e) THEN "Bubblewrap"
    ELSE IF e.os = "macos" THEN "Fallback"
    ELSE IF InsecureAllowed(e) THEN "Fallback"
    ELSE "panic"

\* CCompiler::new: timeout_secs, max_code_size.
timeout_secs == 5

max_code_size == 10240

\* The mutation: the bubblewrap configuration carries a budget of its own.
SandboxConfigLongTimeout ==
    [timeout_secs |-> 2 * timeout_secs, memory_limit |-> 64 * 1024 * 1024]

\* SandboxConfig::default()
SandboxConfigDefault == [timeout_secs |-> 5, memory_limit |-> 64 * 1024 * 1024]

(***************************************************************************)
(* The submitted sources. `text` is the part of the source that matters,   *)
(* `pad` the number of further bytes (a trailing comment); `compiles` is   *)
(* whether gcc accepts it; `trace` the system calls the program issues and *)
(* `ending` how it ends when nothing kills it.                             *)
(***************************************************************************)
ForkCall == [nr |-> "clone", arg0 |-> 18874385, cflags |-> 18874385]

HelloText == "int main(){return 0;}"

SysText == "int main(){fork();system(\"ls\");return 0;}"

SourceTable ==
    [ hello   |-> [text |-> HelloText, pad |-> 0, compiles |-> TRUE,
                   trace |-> << >>, ending |-> "exit0"],
      fork    |-> [text |-> "int main(){fork();return 0;}", pad |-> 0,
                   compiles |-> TRUE, trace |-> << ForkCall >>, ending |-> "exit0"],
      forksp  |-> [text |-> "int main(){fork ();return 0;}", pad |-> 0,
                   compiles |-> TRUE, trace |-> << ForkCall >>, ending |-> "exit0"],
      loop    |-> [text |-> "int main(){for(;;);}", pad |-> 0, compiles |-> TRUE,
                   trace |-> << >>, ending |-> "loop"],
      bad     |-> [text |-> "int main({", pad |-> 0, compiles |-> FALSE,
                   trace |-> << >>, ending |-> "exit0"],
      edge    |-> [text |-> HelloText, pad |-> max_code_size - Len(HelloText),
                   compiles |-> TRUE, trace |-> << >>, ending |-> "exit0"],
      big     |-> [text |-> HelloText, pad |-> max_code_size - Len(HelloText) + 1,
                   compiles |-> TRUE, trace |-> << >>, ending |-> "exit0"],
      fail    |-> [text |-> "int main(){return 1;}", pad |-> 0, compiles |-> TRUE,
                   trace |-> << >>, ending |-> "exit1"],
      crash   |-> [text |-> "int main(){*(int*)0=0;return 0;}", pad |-> 0,
                   compiles |-> TRUE, trace |-> << >>, ending |-> "sigsegv"],
      sys     |-> [text |-> SysText, pad |-> 0, compiles |-> TRUE,
                   trace |-> << ForkCall >>, ending |-> "exit0"],
      bigsys  |-> [text |-> SysText, pad |-> max_code_size - Len(SysText) + 1,
                   compiles |-> TRUE, trace |-> << ForkCall >>, ending |-> "exit0"] ]

Sources == DOMAIN SourceTable

\* source.len()
SourceLen(s) == Len(SourceTable[s].text) + SourceTable[s].pad

\* The mutation: a source of exactly the ceiling is rejected too.
SizeExceededInclusive(len) == len >= max_code_size

\* source.len() > self.max_code_size
SizeExceeded(len) == len > max_code_size

\* str::contains
Contains(text, pat) ==
    \E i \in 1..(Len(text) - Len(pat) + 1) : SubSeq(text, i, i + Len(pat) - 1) = pat

DANGEROUS_FUNCS == << "system(", "exec(", "popen(", "fork(" >>

\* check_dangerous_functions: << >> for Ok(()), or the error message of the first
\* entry of DANGEROUS_FUNCS the source contains.
check_dangerous_functions(s) ==
    LET hits == {i \in DOMAIN DANGEROUS_FUNCS :
                    Contains(SourceTable[s].text, DANGEROUS_FUNCS[i])}
    IN  IF hits = {} THEN << >>
        ELSE LET f == DANGEROUS_FUNCS[CHOOSE i \in hits : \A j \in hits : i <= j]
             IN  << "Dangerous function '" \o SubSeq(f, 1, Len(f) - 1)
                    \o "' is not allowed" >>

(***************************************************************************)
(* The executors: what becomes of a program started with a given image.    *)
(***************************************************************************)
\* Whether a system call of the program is let through: by the seccomp filter
\* when the child installed it before exec; always otherwise (bwrap is given
\* namespaces and mounts but no filter, the fallback executor nothing).
ExecutorAllows(filtered, sc) ==
    IF filtered THEN Evaluate(build_seccomp_filter, sc) = "Allow" ELSE TRUE

ExecveCall == [nr |-> "execve", arg0 |-> 0, cflags |-> 0]

\* The system calls of a program run from `image`: a child that installed the
\* filter in pre_exec issues the execve of the binary under it.
ProgramCalls(image, filtered) ==
    IF filtered THEN << ExecveCall >> \o SourceTable[image].trace
    ELSE SourceTable[image].trace

\* How a program run from `image` ends: "sigsys" when a system call of its is
\* refused, else its own ending. The image "missing" stands for bwrap started
\* on a path that holds no binary: bwrap exits with status 1.
RunOutcome(image, filtered) ==
    IF image = "missing" THEN "exit1"
    ELSE IF \E i \in DOMAIN ProgramCalls(image, filtered) :
                ~ExecutorAllows(filtered, ProgramCalls(image, filtered)[i])
         THEN "sigsys"
         ELSE SourceTable[image].ending

\* What the program wrote to its standard output: a terminating program's own
\* output, named after its source.
Stdout(image, outcome) ==
    IF image # "missing" /\ outcome \in {"exit0", "exit1"} THEN "output of " \o image
    ELSE ""

\* ExitStatus::code(): None for a process a signal ended.
ExitCode(outcome) ==
    IF outcome = "exit0" THEN << 0 >>
    ELSE IF outcome = "exit1" THEN << 1 >>
    ELSE << >>

(***************************************************************************)
(* Spec: process start, then overlapping compile_and_run_with_input calls. *)
(***************************************************************************)
MaxClock == 1

\* Two activations of compile_and_run_with_input, which may overlap.
Activations == {"A", "B"}

Timestamps == 0..MaxClock

NoDir == [exists |-> FALSE, code |-> "none", program |-> "none"]

\* ExecutionOutput::default() (execution_time_ms, a timing field, left out).
\* Option<T> is a sequence: << >> for None, << v >> for Some(v).
DefaultOutput ==
    [stdout |-> "", stderr |-> "", compile_error |-> << >>,
     runtime_error |-> << >>, exit_code |-> << >>, timed_out |-> FALSE]

\* The SandboxResult of an executor whose blocking task returned the output of
\* the process: the Ok(Ok(Ok(output))) arm (execution_time_ms left out).
CompletedResult(out, errout, outcome) ==
    [stdout |-> out, stderr |-> errout, exit_code |-> ExitCode(outcome),
     timed_out |-> FALSE]

\* The mutation: the timeout arm reports an exit status.
TimedOutResultWithStatus ==
    [stdout |-> "", stderr |-> "Execution timed out", exit_code |-> << 0 >>,
     timed_out |-> TRUE]

\* The SandboxResult of an executor whose timeout elapsed: the Err(_) arm.
TimedOutResult ==
    [stdout |-> "", stderr |-> "Execution timed out", exit_code |-> << >>,
     timed_out |-> TRUE]

\* The kinds of result the awaited blocking task can have, the timeout aside:
\* the output of the process, an io::Error of Command::output or spawn, a
\* JoinError (the task panicked).
TaskResults == {"output", "io_error", "panicked"}

\* The mutation: the JoinError is unwrapped instead of matched.
match_result_unwrapping(task, failmsg) ==
    IF task = "io_error" THEN [ret |-> "Err", err |-> failmsg]
    ELSE IF task = "panicked" THEN [ret |-> "Panic", err |-> "Task panicked"]
    ELSE [ret |-> "Ok", err |-> ""]

\* The mutation: an io::Error of the spawn is reported as an empty result.
match_result_spawn_error_as_output(task, failmsg) ==
    IF task = "io_error" THEN [ret |-> "Ok", err |-> ""]
    ELSE IF task = "panicked" THEN [ret |-> "Err", err |-> "Task panicked"]
    ELSE [ret |-> "Ok", err |-> ""]

\* The match on the awaited result, the arms other than Ok(Ok(Ok(output))) and
\* the timeout: Ok(Ok(Err(e))) and Ok(Err(e)).
match_result(task, failmsg) ==
    IF task = "io_error" THEN [ret |-> "Err", err |-> failmsg]
    ELSE IF task = "panicked" THEN [ret |-> "Err", err |-> "Task panicked"]
    ELSE [ret |-> "Ok", err |-> ""]

\* The mutation: a compile result without an exit code counts as a success.
CompileFailedOnlyOnStatus(compile_result) ==
    compile_result.exit_code \notin {<< >>, << 0 >>}

\* compile_result.exit_code != Some(0)
CompileFailed(compile_result) == compile_result.exit_code # << 0 >>

\* The mutation: the compiler's stderr is copied into the stderr field as well.
CompileErrorOutputWithStderr(compile_result) ==
    [DefaultOutput EXCEPT !.compile_error = << compile_result.stderr >>,
                          !.stderr = compile_result.stderr]

\* The ExecutionOutput of a failed compilation.
CompileErrorOutput(compile_result) ==
    [DefaultOutput EXCEPT !.compile_error = << compile_result.stderr >>]

\* The mutation: no runtime error is synthesised for a timeout.
ExecutionOutputOfRunNoRuntimeError(run_result) ==
    [DefaultOutput EXCEPT
        !.stdout = run_result.stdout,
        !.stderr = run_result.stderr,
        !.exit_code = run_result.exit_code,
        !.timed_out = run_result.timed_out]

\* The ExecutionOutput built from the run result of the execution phase.
ExecutionOutputOfRun(run_result) ==
    [DefaultOutput EXCEPT
        !.stdout = run_result.stdout,
        !.stderr = run_result.stderr,
        !.exit_code = run_result.exit_code,
        !.timed_out = run_result.timed_out,
        !.runtime_error = IF run_result.timed_out
                          THEN << "Execution timed out" >> ELSE << >>]

\* The mutation: the scan is applied whatever the mode.
ScanAppliesInEveryMode(mode) == mode \in {"Seccomp", "Bubblewrap", "Fallback"}

\* if self.sandbox_mode == SandboxMode::Fallback
ScanApplies(mode) == mode = "Fallback"

\* The mutation: every mode runs the binary with the fallback executor.
ExecutorForAlwaysFallback(mode) == "fallback_execute"

\* match self.sandbox_mode, in the linux build with the seccomp feature (the
\* only build in which the mode can be Seccomp).
ExecutorFor(mode) ==
    IF mode = "Seccomp" THEN "seccomp_execute"
    ELSE IF mode = "Bubblewrap" THEN "sandbox_execute"
    ELSE "fallback_execute"

\* The executor the compile phase uses.
CompilerExecutor(mode) == "fallback_execute"

\* The timeout each executor awaits with: sandbox_execute reads it from the
\* SandboxConfig, the others are passed self.timeout_secs.
ExecutorTimeout(ex) ==
    IF ex = "sandbox_execute" THEN sandbox_config.timeout_secs ELSE timeout_secs

\* What the program can read from its standard input: seccomp_execute pipes
\* stdin, writes the input when there is one and closes the pipe;
\* Command::output runs the process with a null stdin.
StdinDelivered(ex, input) ==
    IF ex = "seccomp_execute" /\ input # << >> THEN input[1] ELSE ""

\* What the process wrote to its standard error.
Stderr(image, outcome) ==
    IF image = "missing" THEN "bwrap: execvp: No such file or directory" ELSE ""

\* The stdin_input arguments the callers pass.
Inputs == {<< >>, << "42" >>}

\* An activation: where it stands (pc), its source and stdin_input, its scratch
\* directory (`dir`, << >> until create_dir_all succeeded), the compiler process
\* it spawned (gcc), the executor that ran it and the timeout it was awaited
\* with, the executor of the execution phase and its timeout, the child spawned
\* for the binary (user: "none", "forked", "pre_exec_ok", "running", "exited",
\* "failed"), the image that child exec'd, what it can read from stdin, whether
\* NO_NEW_PRIVS and the filter are set in the child, and what the call returned.
IdleCall ==
    [pc |-> "idle", src |-> "none", input |-> << >>, dir |-> << >>,
     gcc |-> "none", gcc_via |-> "none", compile_timeout |-> 0,
     executor |-> "none", exec_timeout |-> 0,
     user |-> "none", image |-> "none", child_stdin |-> << >>,
     child_nnp |-> FALSE, child_filtered |-> FALSE,
     ret |-> "none", err |-> "", out |-> DefaultOutput]

\* One caller, any environment, any source.
PipeInit ==
    /\ env \in Envs
    /\ startup = "init"
    /\ sandbox_mode = "none"
    /\ sandbox_config = "none"
    /\ now = 0
    /\ dirs = [t \in Timestamps |-> NoDir]
    /\ calls = [c \in Activations |-> IdleCall]
    /\ active = {"A"}
    /\ workload = Sources
    /\ orch_filtered = FALSE

\* One environment for each mode, and the sources two overlapping callers submit.
PairEnvs ==
    {e \in Envs : /\ e.os \in {"linux", "macos"}
                  /\ e.feature = (e.os = "linux") /\ e.prctl = e.feature
                  /\ e.bwrap = "absent" /\ e.flag = "unset"}
    \cup {e \in Envs : /\ e.os = "linux" /\ ~e.feature
                       /\ e.bwrap = "works" /\ e.flag = "unset"}

PairSources == {"hello", "bad", "loop"}

\* Two callers, whose calls may overlap or follow each other.
PairInit ==
    /\ env \in PairEnvs
    /\ startup = "init"
    /\ sandbox_mode = "none"
    /\ sandbox_config = "none"
    /\ now = 0
    /\ dirs = [t \in Timestamps |-> NoDir]
    /\ calls = [c \in Activations |-> IdleCall]
    /\ active = Activations
    /\ workload = PairSources
    /\ orch_filtered = FALSE

\* The mutation: after a timed-out execution the call goes back to the
\* execution phase instead of returning.
ReturnOkRetrying(call, o) ==
    IF o.timed_out THEN [call EXCEPT !.pc = "compiled"]
    ELSE [call EXCEPT !.pc = "returned", !.ret = "Ok", !.out = o]

ReturnOk(call, o) == [call EXCEPT !.pc = "returned", !.ret = "Ok", !.out = o]

ReturnErr(call, msg) == [call EXCEPT !.pc = "returned", !.ret = "Err", !.err = msg]

\* The call ends the way the match on the awaited result says.
ReturnWith(call, r) == [call EXCEPT !.pc = "returned", !.ret = r.ret, !.err = r.err]

\* std::fs::remove_dir_all(&sandbox_dir), its result ignored.
RemoveDir(ds, t) == [ds EXCEPT ![t] = NoDir]

DirOf(c) == calls[c].dir[1]

\* The binary at sandbox_dir/program, "none" when there is none.
BinaryAt(t) == IF dirs[t].exists THEN dirs[t].program ELSE "none"

\* CCompiler::new(): detect_sandbox_mode() panics or the compiler is constructed.
Startup ==
    /\ startup = "init"
    /\ IF detect_sandbox_mode(env) = "panic"
       THEN /\ startup' = "aborted"
            /\ UNCHANGED <<sandbox_mode, sandbox_config>>
       ELSE /\ startup' = "running"
            /\ sandbox_mode' = detect_sandbox_mode(env)
            /\ sandbox_config' = SandboxConfigDefault
    /\ UNCHANGED <<env, now, dirs, calls, orch_filtered, active, workload>>
    /\ UNCHANGED <<filterVars, graderVars, unitVars>>

\* A millisecond passes.
Tick ==
    /\ startup = "running"
    /\ now < MaxClock
    /\ now' = now + 1
    /\ UNCHANGED <<env, startup, sandbox_mode, sandbox_config, dirs, calls,
                   orch_filtered, active, workload>>
    /\ UNCHANGED <<filterVars, graderVars, unitVars>>

\* compile_and_run_with_input, from its entry to create_dir_all.
Enter(c) ==
    /\ startup = "running"
    /\ c \in active
    /\ calls[c].pc = "idle"
    /\ \E s \in workload, i \in Inputs, mkdir_ok \in BOOLEAN :
        LET call == [calls[c] EXCEPT !.src = s, !.input = i] IN
        IF SizeExceeded(SourceLen(s))
        THEN /\ mkdir_ok
             /\ calls' = [calls EXCEPT ![c] = ReturnOk(call,
                    [DefaultOutput EXCEPT !.compile_error =
                        << "Code size exceeds maximum limit" >>])]
             /\ UNCHANGED dirs
        ELSE IF ScanApplies(sandbox_mode) /\ check_dangerous_functions(s) # << >>
        THEN /\ mkdir_ok
             /\ calls' = [calls EXCEPT ![c] = ReturnOk(call,
                    [DefaultOutput EXCEPT !.compile_error =
                        check_dangerous_functions(s)])]
             /\ UNCHANGED dirs
        ELSE IF mkdir_ok
        THEN /\ dirs' = [dirs EXCEPT ![now].exists = TRUE]
             /\ calls' = [calls EXCEPT ![c] =
                    [call EXCEPT !.pc = "created", !.dir = << now >>]]
        ELSE /\ calls' = [calls EXCEPT ![c] =
                    ReturnErr(call, "Failed to create sandbox dir")]
             /\ UNCHANGED dirs
    /\ UNCHANGED <<env, startup, sandbox_mode, sandbox_config, now, orch_filtered,
                   active, workload>>
    /\ UNCHANGED <<filterVars, graderVars, unitVars>>

\* std::fs::write(&source_file, source), then fallback_execute("gcc", ...) up to
\* the spawn of the compiler in the blocking task.
WriteAndSpawnCompiler(c) ==
    /\ calls[c].pc = "created"
    /\ \E write_ok \in BOOLEAN, task \in TaskResults :
        LET t == DirOf(c)
            awaited == [calls[c] EXCEPT
                           !.gcc_via = CompilerExecutor(sandbox_mode),
                           !.compile_timeout = timeout_secs]
        IN
        IF ~(write_ok /\ dirs[t].exists)
        THEN /\ task = "output"
             /\ calls' = [calls EXCEPT ![c] =
                    ReturnErr(calls[c], "Failed to write source")]
             /\ UNCHANGED dirs
        ELSE /\ dirs' = [dirs EXCEPT ![t].code = calls[c].src]
             /\ calls' = [calls EXCEPT ![c] =
                    IF task = "output"
                    THEN [awaited EXCEPT !.pc = "compiling", !.gcc = "running"]
                    ELSE ReturnWith(awaited, match_result(task, "Failed to execute"))]
    /\ UNCHANGED <<env, startup, sandbox_mode, sandbox_config, now, orch_filtered,
                   active, workload>>
    /\ UNCHANGED <<filterVars, graderVars, unitVars>>

\* The compiler ends: it read code.c and, when the source compiles, wrote the
\* binary. When the activation still awaits it, the activation goes on: a
\* compile result whose exit code is not Some(0) removes the directory and
\* returns the compile error.
CompilerExit(c) ==
    /\ calls[c].gcc = "running"
    /\ LET t == DirOf(c)
           read == IF dirs[t].exists THEN dirs[t].code ELSE "none"
           ok == read # "none" /\ SourceTable[read].compiles
           written == IF ok THEN [dirs EXCEPT ![t].program = read] ELSE dirs
           compile_result ==
               IF ok THEN CompletedResult("", "", "exit0")
               ELSE CompletedResult("", "gcc: error", "exit1")
       IN  IF calls[c].pc # "compiling"
           THEN /\ dirs' = written
                /\ calls' = [calls EXCEPT ![c].gcc = "done"]
           ELSE IF ~CompileFailed(compile_result)
           THEN /\ dirs' = written
                /\ calls' = [calls EXCEPT ![c].gcc = "done", ![c].pc = "compiled"]
           ELSE /\ dirs' = RemoveDir(written, t)
                /\ calls' = [calls EXCEPT ![c] =
                       ReturnOk([calls[c] EXCEPT !.gcc = "done"],
                                CompileErrorOutput(compile_result))]
    /\ UNCHANGED <<env, startup, sandbox_mode, sandbox_config, now, orch_filtered,
                   active, workload>>
    /\ UNCHANGED <<filterVars, graderVars, unitVars>>

\* The timeout around the compiler fires: the compile result is the timeout
\* arm's, whose exit_code is None, so the directory is removed and the compile
\* error is the synthetic stderr. The blocking task and the compiler go on.
CompileTimeout(c) ==
    /\ calls[c].pc = "compiling"
    /\ IF CompileFailed(TimedOutResult)
       THEN /\ dirs' = RemoveDir(dirs, DirOf(c))
            /\ calls' = [calls EXCEPT ![c] =
                   ReturnOk(calls[c], CompileErrorOutput(TimedOutResult))]
       ELSE /\ calls' = [calls EXCEPT ![c].pc = "compiled"]
            /\ UNCHANGED dirs
    /\ UNCHANGED <<env, startup, sandbox_mode, sandbox_config, now, orch_filtered,
                   active, workload>>
    /\ UNCHANGED <<filterVars, graderVars, unitVars>>

\* The mutation: the closure reports success although the filter was not applied.
pre_exec_ignoring_filter_error(nnp_ok, filter_ok) ==
    IF ~nnp_ok THEN "Err" ELSE "Ok"

\* The closure given to pre_exec: prctl(PR_SET_NO_NEW_PRIVS) then
\* apply_filter_all_threads, either failure returned as the closure's error.
pre_exec(nnp_ok, filter_ok) ==
    IF ~nnp_ok THEN "Err"
    ELSE IF ~filter_ok THEN "Err"
    ELSE "Ok"

\* The process the closure runs in: Command::pre_exec runs it in the child,
\* after the fork and before the exec.
FilterInstalledIn == "child"

\* The execution phase up to the spawn: the match on self.sandbox_mode, then
\* the executor's blocking task up to the start of the process.
Dispatch(c) ==
    /\ calls[c].pc = "compiled"
    /\ \E task \in TaskResults :
        LET bin == BinaryAt(DirOf(c))
            ex == ExecutorFor(sandbox_mode)
            awaited == [calls[c] EXCEPT !.executor = ex,
                                        !.exec_timeout = ExecutorTimeout(ex)]
        IN
        calls' = [calls EXCEPT ![c] =
            IF ex = "seccomp_execute"
            THEN IF task = "output"
                 THEN [awaited EXCEPT !.pc = "executing", !.user = "forked"]
                 ELSE ReturnWith(awaited,
                          match_result(task, "Failed to spawn process"))
            ELSE IF ex = "sandbox_execute"
            THEN IF task = "output"
                 THEN [awaited EXCEPT !.pc = "executing", !.user = "running",
                          !.image = IF bin = "none" THEN "missing" ELSE bin,
                          !.child_stdin = << StdinDelivered(ex, calls[c].input) >>]
                 ELSE ReturnWith(awaited,
                          match_result(task, "Failed to spawn sandbox"))
            ELSE IF task = "output" /\ bin # "none"
                 THEN [awaited EXCEPT !.pc = "executing", !.user = "running",
                          !.image = bin,
                          !.child_stdin = << StdinDelivered(ex, calls[c].input) >>]
                 ELSE ReturnWith(awaited,
                          match_result(IF task = "output" THEN "io_error" ELSE task,
                                       "Failed to execute"))]
    /\ UNCHANGED <<env, startup, sandbox_mode, sandbox_config, now, dirs,
                   orch_filtered, active, workload>>
    /\ UNCHANGED <<filterVars, graderVars, unitVars>>

\* Seccomp executor, in the forked child: the pre_exec closure. A failure is
\* reported by spawn as an error and the child ends without exec.
ChildPreExec(c) ==
    /\ calls[c].user = "forked"
    /\ \E nnp_ok \in BOOLEAN, filter_ok \in BOOLEAN :
        LET res == pre_exec(nnp_ok, filter_ok)
            child == [calls[c] EXCEPT
                        !.child_nnp = nnp_ok,
                        !.child_filtered =
                            nnp_ok /\ filter_ok /\ FilterInstalledIn = "child",
                        !.user = IF res = "Ok" THEN "pre_exec_ok" ELSE "failed"]
        IN  /\ calls' = [calls EXCEPT ![c] =
                   IF res # "Ok" /\ calls[c].pc = "executing"
                   THEN ReturnErr(child, "Failed to spawn process")
                   ELSE child]
            /\ orch_filtered' =
                   (orch_filtered \/ (nnp_ok /\ filter_ok /\ FilterInstalledIn # "child"))
    /\ UNCHANGED <<env, startup, sandbox_mode, sandbox_config, now, dirs, active,
                   workload>>
    /\ UNCHANGED <<filterVars, graderVars, unitVars>>

\* Seccomp executor, in the child after pre_exec: the exec of the binary, after
\* which the parent writes the input to the child's stdin. With no binary at the
\* path the exec fails and spawn reports the error.
ChildExec(c) ==
    /\ calls[c].user = "pre_exec_ok"
    /\ LET bin == BinaryAt(DirOf(c)) IN
       calls' = [calls EXCEPT ![c] =
            IF bin # "none"
            THEN [calls[c] EXCEPT !.user = "running", !.image = bin,
                     !.child_stdin =
                         << StdinDelivered(calls[c].executor, calls[c].input) >>]
            ELSE IF calls[c].pc = "executing"
            THEN ReturnErr([calls[c] EXCEPT !.user = "failed"],
                           "Failed to spawn process")
            ELSE [calls[c] EXCEPT !.user = "failed"]]
    /\ UNCHANGED <<env, startup, sandbox_mode, sandbox_config, now, dirs,
                   orch_filtered, active, workload>>
    /\ UNCHANGED <<filterVars, graderVars, unitVars>>

\* The program ends (a looping program never does). When the activation still
\* awaits it: cleanup, then the ExecutionOutput built from the run result.
UserExit(c) ==
    /\ calls[c].user = "running"
    /\ LET outcome == RunOutcome(calls[c].image, calls[c].child_filtered)
           ended == [calls[c] EXCEPT !.user = "exited"]
           run_result == CompletedResult(Stdout(calls[c].image, outcome),
                                         Stderr(calls[c].image, outcome), outcome)
       IN  /\ outcome # "loop"
           /\ IF calls[c].pc = "executing"
              THEN /\ dirs' = RemoveDir(dirs, DirOf(c))
                   /\ calls' = [calls EXCEPT ![c] =
                          ReturnOk(ended, ExecutionOutputOfRun(run_result))]
              ELSE /\ calls' = [calls EXCEPT ![c] = ended]
                   /\ UNCHANGED dirs
    /\ UNCHANGED <<env, startup, sandbox_mode, sandbox_config, now, orch_filtered,
                   active, workload>>
    /\ UNCHANGED <<filterVars, graderVars, unitVars>>

\* The timeout around the executor fires: the run result is the timeout arm's;
\* cleanup, then the ExecutionOutput built from it. The blocking task and the
\* child go on.
ExecTimeout(c) ==
    /\ calls[c].pc = "executing"
    /\ dirs' = RemoveDir(dirs, DirOf(c))
    /\ calls' = [calls EXCEPT ![c] =
           ReturnOk(calls[c], ExecutionOutputOfRun(TimedOutResult))]
    /\ UNCHANGED <<env, startup, sandbox_mode, sandbox_config, now, orch_filtered,
                   active, workload>>
    /\ UNCHANGED <<filterVars, graderVars, unitVars>>

Next ==
    \/ Startup
    \/ Tick
    \/ \E c \in Activations : Enter(c)
    \/ \E c \in Activations : WriteAndSpawnCompiler(c)
    \/ \E c \in Activations : CompilerExit(c)
    \/ \E c \in Activations : CompileTimeout(c)
    \/ \E c \in Activations : Dispatch(c)
    \/ \E c \in Activations : ChildPreExec(c)
    \/ \E c \in Activations : ChildExec(c)
    \/ \E c \in Activations : UserExit(c)
    \/ \E c \in Activations : ExecTimeout(c)

Init == PipeInit /\ FilterInit /\ GraderIdle /\ UnitIdle

Spec == Init /\ [][Next]_vars

PairSpecInit == PairInit /\ FilterInit /\ GraderIdle /\ UnitIdle

SpecPair == PairSpecInit /\ [][Next]_vars

(***************************************************************************)
(* Properties                                                              *)
(***************************************************************************)
Isolated == sandbox_mode \in {"Seccomp", "Bubblewrap"}

\* A source whose program starts a new process (fork, vfork or clone without
\* CLONE_THREAD).
CallsFork(s) ==
    \E i \in DOMAIN SourceTable[s].trace : CreatesProcess(SourceTable[s].trace[i])

\* Bit 16 (0x10000) of a word.
ThreadFlagSet(f) == (f \div 65536) % 2 = 1

\* C1: fail closed. Off macOS the mode is Fallback only if
\* ALLOW_INSECURE_SANDBOX is "1"; with seccomp unavailable, bubblewrap absent or
\* failing its smoke test and the flag not "1", startup aborts, no CCompiler
\* exists (no mode, no activation ever leaves idle), and so no user binary runs
\* without isolation in that configuration.
C1_FailClosed ==
    /\ (startup = "running" /\ sandbox_mode = "Fallback" /\ env.os # "macos")
          => env.flag = "1"
    /\ ( /\ startup # "init"
         /\ env.os # "macos"
         /\ ~(env.os = "linux" /\ env.feature /\ env.prctl)
         /\ env.bwrap # "works"
         /\ env.flag # "1" )
          => /\ startup = "aborted"
             /\ sandbox_mode = "none"
             /\ \A c \in Activations : calls[c] = IdleCall
    /\ \A c \in Activations :
          (calls[c].user # "none" /\ ~Isolated)
             => (env.os = "macos" \/ env.flag = "1")

\* C1 witness: on linux, no seccomp, bubblewrap present but failing its smoke
\* test, the flag set to a value other than "1": startup has aborted.
C1_Witness ==
    /\ startup = "aborted"
    /\ env.os = "linux"
    /\ env.bwrap = "broken"
    /\ env.flag = "true"

\* C2: every call that created a scratch directory has, once it returned by
\* whatever path, left no such directory behind.
C2_ScratchDirRemovedOnEveryPath ==
    \A c \in Activations :
        (calls[c].pc = "returned" /\ calls[c].dir # << >>)
            => ~dirs[DirOf(c)].exists

\* C3: two calls in flight at the same time have distinct scratch directories.
C3_DistinctScratchDirs ==
    \A a, b \in Activations :
        ( /\ a # b
          /\ calls[a].pc \notin {"idle", "returned"}
          /\ calls[b].pc \notin {"idle", "returned"}
          /\ calls[a].dir # << >>
          /\ calls[b].dir # << >> )
            => calls[a].dir # calls[b].dir

\* C4: once a call has returned, no process it spawned (the compiler, the child
\* forked for the binary, the running program) is still alive.
C4_NoProcessOutlivesCall ==
    \A c \in Activations :
        calls[c].pc = "returned"
            => /\ calls[c].gcc # "running"
               /\ calls[c].user \notin {"forked", "pre_exec_ok", "running"}

\* C5: the filter is deny-by-default (default kill-process, match allow) and
\* lets through no networking system call, not ptrace, and no system call by
\* which the filtered program creates a new process (fork, vfork, clone3 or
\* clone without the thread flag).
C5_NoNetworkPtraceNewProcess ==
    /\ fpc = FilterBuilt
          => /\ ffilter.default_action = "KillProcess"
             /\ ffilter.match_action = "Allow"
    /\ fverdict = "Allow"
          => /\ fcall.nr \notin NetworkSyscalls \cup {"ptrace"}
             /\ ~CreatesProcess(fcall)
    /\ fchildren = 0

\* C6: in the final rule set the entry of clone is the one conditional rule (the
\* unconditional entry of the loop is replaced), so that clone(flags) is allowed
\* iff flags & 0x10000 = 0x10000 and kills the process otherwise.
C6_CloneOnlyWithThreadFlag ==
    /\ fpc >= FilterCloneDone
          => /\ Len(frules["clone"]) = 1
             /\ Len(frules["clone"][1]) = 1
    /\ fpc = FilterBuilt
          => \A f \in CloneFlagValues :
                Evaluate(ffilter, [nr |-> "clone", arg0 |-> f, cflags |-> f])
                    = IF ThreadFlagSet(f) THEN "Allow" ELSE "KillProcess"
    /\ fcall.nr = "clone"
          => /\ fverdict = IF ThreadFlagSet(fcall.arg0) THEN "Allow" ELSE "KillProcess"
             /\ ~ThreadFlagSet(fcall.arg0) => fprog = "killed"

\* C6 witness: the program created a thread with clone and was then killed on a
\* clone without the thread flag.
C6_Witness ==
    /\ fthreads > 0
    /\ fcall.nr = "clone"
    /\ ~ThreadFlagSet(fcall.arg0)
    /\ fprog = "killed"

\* C7: a program that forks is killed (ends by a signal, not with an exit code)
\* when run under the Seccomp or the Bubblewrap executor, and under the Fallback
\* executor a source that forks is rejected by the denylist scan, so that its
\* program is never executed.
C7_ForkKilledOrDenylisted ==
    \A c \in Activations :
        /\ ( /\ Isolated
             /\ calls[c].pc = "returned"
             /\ calls[c].ret = "Ok"
             /\ calls[c].out.compile_error = << >>
             /\ ~calls[c].out.timed_out
             /\ calls[c].image \in Sources
             /\ CallsFork(calls[c].image) )
               => calls[c].out.exit_code = << >>
        /\ ( /\ sandbox_mode = "Fallback"
             /\ calls[c].image \in Sources )
               => ~CallsFork(calls[c].image)

\* C8: under the seccomp filter the program can neither exec (execve, execveat)
\* nor open a file.
C8_NoExecNoFileOpen ==
    fverdict = "Allow" => fcall.nr \notin ExecSyscalls \cup FileOpenSyscalls

\* C9: in the Seccomp executor the filter is installed in the child after the
\* fork and before the exec; the orchestrator is never filtered; and a child in
\* which NO_NEW_PRIVS or the filter could not be set never execs the binary,
\* the caller getting an error (unless its timeout had already fired).
C9_FilterInChildBeforeExec ==
    /\ ~orch_filtered
    /\ \A c \in Activations :
        /\ calls[c].user = "forked"
              => ~calls[c].child_filtered /\ calls[c].image = "none"
        /\ (sandbox_mode = "Seccomp" /\ calls[c].image # "none")
              => calls[c].child_nnp /\ calls[c].child_filtered
        /\ ( /\ calls[c].user = "failed"
             /\ ~(calls[c].child_nnp /\ calls[c].child_filtered) )
              => /\ calls[c].image = "none"
                 /\ calls[c].pc = "returned"
                 /\ calls[c].ret = "Err" \/ calls[c].out.timed_out

\* C9 witness: a child that set NO_NEW_PRIVS and the filter runs the binary.
C9_Witness ==
    \E c \in Activations :
        /\ sandbox_mode = "Seccomp"
        /\ calls[c].user = "running"
        /\ calls[c].image = calls[c].src
        /\ calls[c].child_nnp
        /\ calls[c].child_filtered

\* C10: a source longer than 10240 bytes returns a compile error with no
\* scratch directory created and no process spawned; a source of exactly 10240
\* bytes is not rejected by the size check.
C10_OversizeRejectedBeforeAnything ==
    \A c \in Activations :
        calls[c].pc # "idle" =>
            /\ SourceLen(calls[c].src) > 10240
                  => /\ calls[c].pc = "returned"
                     /\ calls[c].ret = "Ok"
                     /\ calls[c].out.compile_error # << >>
                     /\ calls[c].dir = << >>
                     /\ calls[c].gcc = "none"
                     /\ calls[c].user = "none"
                     /\ \A t \in Timestamps : dirs[t] = NoDir
            /\ SourceLen(calls[c].src) = 10240
                  => calls[c].out.compile_error # << "Code size exceeds maximum limit" >>

\* C10 witness: a call with a source of 10241 bytes has returned.
C10_Witness ==
    \E c \in Activations :
        /\ calls[c].pc = "returned"
        /\ SourceLen(calls[c].src) = 10241
        /\ calls[c].out.compile_error = << "Code size exceeds maximum limit" >>

\* C11: in every ExecutionOutput a call returned, a compile_error that is Some
\* comes with empty stdout and stderr, no runtime_error, no exit_code and
\* timed_out false, and the call that returned it never entered the execution
\* phase (no executor was invoked, no child was spawned for the binary).
C11_CompileErrorExcludesExecution ==
    \A c \in Activations :
        ( /\ calls[c].pc = "returned"
          /\ calls[c].ret = "Ok"
          /\ calls[c].out.compile_error # << >> )
            => /\ calls[c].out.stdout = ""
               /\ calls[c].out.stderr = ""
               /\ calls[c].out.runtime_error = << >>
               /\ calls[c].out.exit_code = << >>
               /\ calls[c].out.timed_out = FALSE
               /\ calls[c].executor = "none"
               /\ calls[c].user = "none"

\* C11 witness: the compiler rejected the source and the call returned its
\* stderr as the compile error.
C11_Witness ==
    \E c \in Activations :
        /\ calls[c].pc = "returned"
        /\ calls[c].gcc = "done"
        /\ calls[c].out.compile_error = << "gcc: error" >>

\* C12: under every executor, when the program run for a call ends with exit
\* status 0 while the call still awaits it, the call returns exit_code = Some(0)
\* and timed_out = false; when the call stops awaiting while the child it
\* spawned is still alive (the timeout elapsed), it returns timed_out = true,
\* exit_code = None and the synthetic runtime_error, the child left as it is
\* (not waited for); and a program that loops forever is only ever reported as
\* timed out.
C12_ExitZeroOrTimedOut ==
    [][\A c \in Activations :
          /\ ( /\ calls[c].pc = "executing"
               /\ calls[c].user = "running"
               /\ calls'[c].user = "exited"
               /\ RunOutcome(calls[c].image, calls[c].child_filtered) = "exit0" )
                 => /\ calls'[c].pc = "returned"
                    /\ calls'[c].ret = "Ok"
                    /\ calls'[c].out.compile_error = << >>
                    /\ calls'[c].out.exit_code = << 0 >>
                    /\ calls'[c].out.timed_out = FALSE
                    /\ calls'[c].out.runtime_error = << >>
          /\ ( /\ calls[c].pc = "executing"
               /\ calls'[c].pc = "returned"
               /\ calls'[c].user \in {"forked", "pre_exec_ok", "running"} )
                 => /\ calls'[c].ret = "Ok"
                    /\ calls'[c].out.timed_out = TRUE
                    /\ calls'[c].out.exit_code = << >>
                    /\ calls'[c].out.runtime_error = << "Execution timed out" >>
                    /\ calls'[c].user = calls[c].user
          /\ ( /\ calls'[c].pc = "returned"
               /\ calls'[c].ret = "Ok"
               /\ calls'[c].image = "loop" )
                 => /\ calls'[c].out.timed_out = TRUE
                    /\ calls'[c].out.exit_code = << >>
      ]_vars

\* C12 witness: under bubblewrap the looping program is still running when its
\* call has returned timed_out = true.
C12_Witness ==
    \E c \in Activations :
        /\ sandbox_mode = "Bubblewrap"
        /\ calls[c].pc = "returned"
        /\ calls[c].image = "loop"
        /\ calls[c].user = "running"
        /\ calls[c].out.timed_out = TRUE

\* C13: a timeout is reported distinctly from a crash. Every ExecutionOutput a
\* call returns has timed_out = true iff runtime_error is Some, and timed_out =
\* true only with exit_code = None; and when the program ends while its call
\* still awaits it (it exited with whatever status, crashed or was killed by a
\* signal), the call returns timed_out = false, no runtime_error, and the exit
\* status of the program (None for a signal).
C13_TimeoutDistinctFromCrash ==
    [][\A c \in Activations :
          /\ (calls'[c].pc = "returned" /\ calls'[c].ret = "Ok")
                 => /\ calls'[c].out.timed_out = (calls'[c].out.runtime_error # << >>)
                    /\ calls'[c].out.timed_out => calls'[c].out.exit_code = << >>
          /\ ( /\ calls[c].pc = "executing"
               /\ calls[c].user = "running"
               /\ calls'[c].user = "exited" )
                 => /\ calls'[c].pc = "returned"
                    /\ calls'[c].out.timed_out = FALSE
                    /\ calls'[c].out.runtime_error = << >>
                    /\ calls'[c].out.exit_code =
                           ExitCode(RunOutcome(calls[c].image, calls[c].child_filtered))
      ]_vars

\* C13 witness: a program that crashed was reported with no exit code and
\* timed_out = false.
C13_Witness ==
    \E c \in Activations :
        /\ calls[c].pc = "returned"
        /\ calls[c].image = "crash"
        /\ calls[c].user = "exited"
        /\ calls[c].out.exit_code = << >>
        /\ calls[c].out.timed_out = FALSE

\* The error strings compile_and_run_with_input and the executors return.
FailureMessages ==
    {"Failed to create sandbox dir", "Failed to write source", "Failed to execute",
     "Failed to spawn sandbox", "Failed to spawn process", "Task panicked"}

C15_StdinDeliveredInEveryMode ==
    \A c \in Activations :
        (calls[c].image \in Sources /\ calls[c].child_stdin # << >>)
            => calls[c].child_stdin[1] =
                   (IF calls[c].input = << >> THEN "" ELSE calls[c].input[1])

\* C16: the strict preference order of detect_sandbox_mode. Once the mode is
\* detected: it is Seccomp exactly when syscall filtering is available (the
\* linux build with the seccomp feature, and the prctl probe succeeding);
\* otherwise it is Bubblewrap exactly when bwrap is present and its smoke test
\* succeeds; otherwise, on macOS, it is Fallback whatever the environment
\* variable; and Fallback is never the mode while seccomp or a working
\* bubblewrap is available, nor Bubblewrap while seccomp is.
C16_StrictPreferenceOrder ==
    startup # "init" =>
        LET seccomp == env.os = "linux" /\ env.feature /\ env.prctl
            bwrap == env.bwrap = "works"
        IN  /\ seccomp => (startup = "running" /\ sandbox_mode = "Seccomp")
            /\ (~seccomp /\ bwrap) => (startup = "running" /\ sandbox_mode = "Bubblewrap")
            /\ (~seccomp /\ ~bwrap /\ env.os = "macos")
                  => (startup = "running" /\ sandbox_mode = "Fallback")
            /\ sandbox_mode = "Seccomp" => seccomp
            /\ sandbox_mode = "Bubblewrap" => (~seccomp /\ bwrap)
            /\ sandbox_mode = "Fallback" => (~seccomp /\ ~bwrap)

\* C16 witness: with seccomp and a working bubblewrap both available, the
\* compiler was constructed with Seccomp.
C16_Witness ==
    /\ startup = "running"
    /\ sandbox_mode = "Seccomp"
    /\ env.bwrap = "works"

\* C17: once the CCompiler is constructed no step changes its sandbox_mode or
\* its sandbox_config, and across the calls made on it every execution phase
\* is dispatched to the executor of that one mode (seccomp_execute for Seccomp,
\* sandbox_execute for Bubblewrap, fallback_execute for Fallback).
C17_ModeFixedAtConstruction ==
    [][/\ startup = "running"
            => /\ sandbox_mode' = sandbox_mode
               /\ sandbox_config' = sandbox_config
       /\ \A c \in Activations :
            calls'[c].executor # "none"
               => /\ sandbox_mode' = "Seccomp" => calls'[c].executor = "seccomp_execute"
                  /\ sandbox_mode' = "Bubblewrap" => calls'[c].executor = "sandbox_execute"
                  /\ sandbox_mode' = "Fallback" => calls'[c].executor = "fallback_execute"
                  /\ sandbox_mode' \in {"Seccomp", "Bubblewrap", "Fallback"}
      ]_vars

\* C17 witness: two calls on the same compiler have both been through the
\* execution phase, each with the seccomp executor.
C17_Witness ==
    /\ sandbox_mode = "Seccomp"
    /\ \A c \in Activations :
          /\ calls[c].pc = "returned"
          /\ calls[c].executor = "seccomp_execute"

\* C18: the binary is executed only after the compiler exited with code 0. A
\* compiler that exits non-zero while awaited ends the call with compile_error
\* = Some(its stderr); a compiler that has not finished when the await ends
\* ends the call with compile_error = Some(the stderr of the timeout result);
\* either way no executor is invoked and no child is spawned for the binary, in
\* that step or later; and in every mode the compiler is run by
\* fallback_execute directly, not by the executor the mode selects.
C18_ExecuteOnlyAfterCompilerExitZero ==
    [][\A c \in Activations :
          /\ ( /\ calls[c].pc = "compiling"
               /\ calls[c].gcc = "running"
               /\ calls'[c].gcc = "done"
               /\ ~SourceTable[calls[c].src].compiles )
                 => /\ calls'[c].pc = "returned"
                    /\ calls'[c].ret = "Ok"
                    /\ calls'[c].out.compile_error = << "gcc: error" >>
          /\ ( /\ calls[c].pc = "compiling"
               /\ calls'[c].pc # "compiling"
               /\ calls'[c].gcc = "running" )
                 => /\ calls'[c].pc = "returned"
                    /\ calls'[c].ret = "Ok"
                    /\ calls'[c].out.compile_error = << "Execution timed out" >>
          /\ (calls'[c].executor # "none" \/ calls'[c].user # "none")
                 => /\ calls'[c].gcc = "done"
                    /\ SourceTable[calls'[c].src].compiles
                    /\ calls'[c].out.compile_error = << >>
          /\ calls'[c].out.compile_error # << >>
                 => /\ calls'[c].pc = "returned"
                    /\ calls'[c].executor = "none"
                    /\ calls'[c].user = "none"
          /\ calls'[c].gcc # "none"
                 => calls'[c].gcc_via = "fallback_execute"
      ]_vars

\* C18 witness: in Seccomp mode the compiler, run by fallback_execute, exited
\* non-zero and the call ended with its stderr, no executor invoked.
C18_Witness ==
    \E c \in Activations :
        /\ sandbox_mode = "Seccomp"
        /\ calls[c].pc = "returned"
        /\ calls[c].gcc_via = "fallback_execute"
        /\ calls[c].out.compile_error = << "gcc: error" >>
        /\ calls[c].executor = "none"

\* C19: within one call the await on the compiler and the await on the program
\* are given the same timeout value, whichever executor the mode selects; and
\* when either await ends with its process still running (the timeout elapsed),
\* the call returns Ok with a result that marks the timeout (the compile error
\* carrying the timeout message, or timed_out = true), never Err.
C19_SameTimeoutStructuredResult ==
    [][\A c \in Activations :
          /\ calls'[c].gcc # "none" => calls'[c].compile_timeout > 0
          /\ calls'[c].executor # "none"
                 => calls'[c].exec_timeout = calls'[c].compile_timeout
          /\ ( /\ calls[c].pc = "compiling"
               /\ calls'[c].pc = "returned"
               /\ calls'[c].gcc = "running" )
                 => /\ calls'[c].ret = "Ok"
                    /\ calls'[c].err = ""
                    /\ calls'[c].out.compile_error = << "Execution timed out" >>
          /\ ( /\ calls[c].pc = "executing"
               /\ calls'[c].pc = "returned"
               /\ calls'[c].user \in {"forked", "pre_exec_ok", "running"} )
                 => /\ calls'[c].ret = "Ok"
                    /\ calls'[c].err = ""
                    /\ calls'[c].out.timed_out = TRUE
                    /\ calls'[c].out.stderr = "Execution timed out"
      ]_vars

\* C19 witness: under bubblewrap, whose executor takes its timeout from the
\* SandboxConfig, the await on the program timed out after the same budget the
\* compiler was given.
C19_Witness ==
    \E c \in Activations :
        /\ calls[c].executor = "sandbox_execute"
        /\ calls[c].pc = "returned"
        /\ calls[c].out.timed_out = TRUE
        /\ calls[c].exec_timeout = calls[c].compile_timeout
        /\ calls[c].exec_timeout = sandbox_config.timeout_secs

\* The call names of the denylist and the sources that contain one followed by
\* an opening parenthesis.
DenylistedNames == {"system", "exec", "popen", "fork"}

NamesIn(s) == {f \in DenylistedNames : Contains(SourceTable[s].text, f \o "(")}

DenylistErrors(names) ==
    {<< "Dangerous function '" \o f \o "' is not allowed" >> : f \in names}

\* Rejected at compile time by the denylist: the call returned a compile error
\* naming a function its source contains, having created no scratch directory
\* and spawned no process.
RejectedByDenylist(c) ==
    /\ calls[c].pc = "returned"
    /\ calls[c].ret = "Ok"
    /\ calls[c].out.compile_error \in DenylistErrors(NamesIn(calls[c].src))
    /\ calls[c].dir = << >>
    /\ calls[c].gcc = "none"
    /\ calls[c].user = "none"
    /\ \A t \in Timestamps : dirs[t] = NoDir

\* Not subjected to the scan: no denylist error, and the call went on to create
\* its scratch directory for the compilation (or failed to create it).
NotScanned(c) ==
    /\ calls[c].out.compile_error \notin DenylistErrors(DenylistedNames)
    /\ calls[c].dir = << >>
          => (calls[c].ret = "Err" /\ calls[c].err = "Failed to create sandbox dir")

\* C20 (as claimed): in Fallback mode any source containing a denylisted call
\* name is rejected by the denylist; in Seccomp or Bubblewrap mode the scan is
\* not applied and the same source proceeds to compilation.
C20_DenylistFallbackOnly ==
    \A c \in Activations :
        (calls[c].pc # "idle" /\ NamesIn(calls[c].src) # {})
            => /\ sandbox_mode = "Fallback" => RejectedByDenylist(c)
               /\ Isolated => NotScanned(c)

\* C20 (amended): the same, for sources within the size limit (a longer source
\* is rejected by the size check, which comes first, in every mode).
C20_DenylistFallbackOnlyWithinSizeLimit ==
    \A c \in Activations :
        ( /\ calls[c].pc # "idle"
          /\ NamesIn(calls[c].src) # {}
          /\ SourceLen(calls[c].src) <= max_code_size )
            => /\ sandbox_mode = "Fallback" => RejectedByDenylist(c)
               /\ Isolated => NotScanned(c)

\* C20 witness: in Fallback mode a source calling fork and system was rejected
\* with the error naming system, the first denylist entry it contains.
C20_Witness ==
    \E c \in Activations :
        /\ sandbox_mode = "Fallback"
        /\ calls[c].src = "sys"
        /\ RejectedByDenylist(c)
        /\ calls[c].out.compile_error = << "Dangerous function 'system' is not allowed" >>

(***************************************************************************)
(* harness.rs: generate_harness. Text is TLA+ strings; a Result is a       *)
(* record [ok, val, err]; a serde_json::Value is a record tagged by t:     *)
(* "int" (an integer Number, n its value), "float" (a Number with a        *)
(* fraction, n its value in millionths), "string" (s its text), "array"    *)
(* (a its elements), "bool", "null".                                       *)
(***************************************************************************)
Ok(x) == [ok |-> TRUE, val |-> x, err |-> ""]

Err(msg) == [ok |-> FALSE, val |-> "", err |-> msg]

JValue(t, n, s, a) == [t |-> t, n |-> n, s |-> s, a |-> a]

JInt(n) == JValue("int", n, "", << >>)

JFloat(m) == JValue("float", m, "", << >>)

JString(s) == JValue("string", 0, s, << >>)

JArray(a) == JValue("array", 0, "", a)

JBool(b) == JValue("bool", IF b THEN 1 ELSE 0, "", << >>)

JNull == JValue("null", 0, "", << >>)

\* Value::as_str, as_array, as_i64, as_u64, as_f64: << x >> for Some(x), << >>
\* for None. as_f64 gives the value in millionths.
as_str(value) == IF value.t = "string" THEN << value.s >> ELSE << >>

as_array(value) == IF value.t = "array" THEN << value.a >> ELSE << >>

as_i64(value) == IF value.t = "int" THEN << value.n >> ELSE << >>

as_u64(value) == IF value.t = "int" /\ value.n >= 0 THEN << value.n >> ELSE << >>

as_f64(value) ==
    IF value.t = "int" THEN << value.n * 1000000 >>
    ELSE IF value.t = "float" THEN << value.n >>
    ELSE << >>

DecimalDigits == "0123456789"

RECURSIVE NatToString(_)
NatToString(n) ==
    IF n < 10 THEN SubSeq(DecimalDigits, n + 1, n + 1)
    ELSE NatToString(n \div 10) \o SubSeq(DecimalDigits, (n % 10) + 1, (n % 10) + 1)

\* i64::to_string, usize::to_string
to_string(n) == IF n < 0 THEN "-" \o NatToString(-n) ELSE NatToString(n)

RECURSIVE ZeroPad(_, _)
ZeroPad(s, width) == IF Len(s) >= width THEN s ELSE ZeroPad("0" \o s, width)

\* format!("{:.6}", n) of the value m millionths.
FormatFixed6(m) ==
    LET a == IF m < 0 THEN -m ELSE m
    IN  (IF m < 0 THEN "-" ELSE "")
        \o NatToString(a \div 1000000) \o "." \o ZeroPad(NatToString(a % 1000000), 6)

\* [String]::join
RECURSIVE Join(_, _)
Join(parts, sep) ==
    IF Len(parts) = 0 THEN ""
    ELSE IF Len(parts) = 1 THEN parts[1]
    ELSE parts[1] \o sep \o Join(Tail(parts), sep)

\* str::replace(ch, to) for a one-character pattern.
RECURSIVE ReplaceChar(_, _, _)
ReplaceChar(s, ch, to) ==
    IF s = "" THEN ""
    ELSE (IF SubSeq(s, 1, 1) = ch THEN to ELSE SubSeq(s, 1, 1))
         \o ReplaceChar(SubSeq(s, 2, Len(s)), ch, to)

\* The mutation: the backslashes are escaped after the quotes instead of first.
escape_c_string_backslash_last(s) ==
    ReplaceChar(ReplaceChar(ReplaceChar(ReplaceChar(ReplaceChar(s,
        "\"", "\\\""), "\n", "\\n"), "\t", "\\t"), "\r", "\\r"), "\\", "\\\\")

\* Escape special characters in a C string.
escape_c_string(s) ==
    ReplaceChar(ReplaceChar(ReplaceChar(ReplaceChar(ReplaceChar(s,
        "\\", "\\\\"), "\"", "\\\""), "\n", "\\n"), "\t", "\\t"), "\r", "\\r")

\* The first error among the results, else the values: collect() into
\* Result<Vec<_>, _>.
Collect(results) ==
    LET bad == {i \in DOMAIN results : ~results[i].ok}
    IN  IF bad = {} THEN Ok([i \in DOMAIN results |-> results[i].val])
        ELSE Err(results[CHOOSE i \in bad : \A j \in bad : i <= j].err)

\* The elements of an array given for a pointer-to-int parameter.
ArrayElement(v) ==
    IF as_i64(v) # << >> THEN Ok(to_string(as_i64(v)[1]))
    ELSE Err("Array element must be integer")

\* The mutation: a bare integer is passed by value, not by pointer.
IntPointerArgByValue(value) ==
    IF as_str(value) # << >> /\ as_str(value)[1] = "NULL" THEN Ok("NULL")
    ELSE IF as_array(value) # << >>
    THEN LET elements ==
                 Collect([i \in DOMAIN as_array(value)[1] |->
                             ArrayElement(as_array(value)[1][i])])
         IN  IF ~elements.ok THEN Err(elements.err)
             ELSE Ok("(int[]){ " \o Join(elements.val, ", ") \o " }")
    ELSE IF as_i64(value) = << >> THEN Err("Expected integer, array, or 'NULL'")
    ELSE Ok(to_string(as_i64(value)[1]))

\* format_single_arg, the branch of the pointer-to-int types.
IntPointerArg(value) ==
    IF as_str(value) # << >> /\ as_str(value)[1] = "NULL" THEN Ok("NULL")
    ELSE IF as_array(value) # << >>
    THEN LET elements ==
                 Collect([i \in DOMAIN as_array(value)[1] |->
                             ArrayElement(as_array(value)[1][i])])
         IN  IF ~elements.ok THEN Err(elements.err)
             ELSE Ok("(int[]){ " \o Join(elements.val, ", ") \o " }")
    ELSE IF as_i64(value) = << >> THEN Err("Expected integer, array, or 'NULL'")
    ELSE Ok("&(int){" \o to_string(as_i64(value)[1]) \o "}")

\* The mutation: an integer parameter takes any number, its fraction dropped.
SignedArgLenient(value) ==
    IF as_f64(value) = << >> THEN Err("Expected integer")
    ELSE Ok(to_string(as_f64(value)[1] \div 1000000))

\* format_single_arg, the arm "int" | "long" | "short".
SignedArg(value) ==
    IF as_i64(value) = << >> THEN Err("Expected integer")
    ELSE Ok(to_string(as_i64(value)[1]))

\* param_type.contains("int*") || param_type.contains("int *")
IsIntPointerType(param_type) ==
    Contains(param_type, "int*") \/ Contains(param_type, "int *")

\* t.contains("char*") || t.contains("char *") || t == "string"
IsStringType(t) == Contains(t, "char*") \/ Contains(t, "char *") \/ t = "string"

\* Format a single argument value based on its type. (The error messages carry
\* the offending value's Debug form in the source; it is left out here.)
format_single_arg(param_type, value) ==
    IF IsIntPointerType(param_type) THEN IntPointerArg(value)
    ELSE IF param_type \in {"int", "long", "short"} THEN SignedArg(value)
    ELSE IF param_type \in {"unsigned int", "unsigned long", "size_t"}
    THEN IF as_u64(value) = << >> THEN Err("Expected unsigned integer")
         ELSE Ok(to_string(as_u64(value)[1]))
    ELSE IF param_type \in {"float", "double"}
    THEN IF as_f64(value) = << >> THEN Err("Expected float")
         ELSE Ok(FormatFixed6(as_f64(value)[1]))
    ELSE IF param_type = "char"
    THEN IF as_str(value) = << >> THEN Err("Expected char string")
         ELSE IF Len(as_str(value)[1]) # 1
         THEN Err("Expected single char, got '" \o as_str(value)[1] \o "'")
         ELSE Ok("'" \o SubSeq(as_str(value)[1], 1, 1) \o "'")
    ELSE IF IsStringType(param_type)
    THEN IF as_str(value) = << >> THEN Err("Expected string")
         ELSE Ok("\"" \o escape_c_string(as_str(value)[1]) \o "\"")
    ELSE Err("Unsupported parameter type: " \o param_type)

\* The mutation: the parameters and the inputs are zipped without the length
\* check, the longer of the two cut to the shorter.
format_call_args_zip_only(params, input) ==
    LET n == IF Len(params) < Len(input) THEN Len(params) ELSE Len(input)
        args == Collect([i \in 1..n |->
                            format_single_arg(params[i].param_type, input[i])])
    IN  IF ~args.ok THEN Err(args.err) ELSE Ok(Join(args.val, ", "))

\* Format the arguments for the function call based on parameter types and
\* test input.
format_call_args(params, input) ==
    IF Len(params) # Len(input)
    THEN Err("Parameter count mismatch: expected " \o to_string(Len(params))
             \o ", got " \o to_string(Len(input)))
    ELSE LET args == Collect([i \in DOMAIN params |->
                                 format_single_arg(params[i].param_type, input[i])])
         IN  IF ~args.ok THEN Err(args.err) ELSE Ok(Join(args.val, ", "))

\* The mutation: a return type without a conversion of its own is printed as
\* an int.
get_print_format_defaulting(return_type) ==
    IF return_type = "long" THEN Ok("%ld")
    ELSE IF return_type = "unsigned int" THEN Ok("%u")
    ELSE IF return_type \in {"unsigned long", "size_t"} THEN Ok("%lu")
    ELSE IF return_type = "float" THEN Ok("%f")
    ELSE IF return_type = "double" THEN Ok("%lf")
    ELSE IF return_type = "char" THEN Ok("%c")
    ELSE IF return_type \in {"char*", "char *", "string"} THEN Ok("%s")
    ELSE IF return_type = "void" THEN Ok("")
    ELSE Ok("%d")

\* Get the printf format specifier for a return type.
get_print_format(return_type) ==
    IF return_type \in {"int", "short"} THEN Ok("%d")
    ELSE IF return_type = "long" THEN Ok("%ld")
    ELSE IF return_type = "unsigned int" THEN Ok("%u")
    ELSE IF return_type \in {"unsigned long", "size_t"} THEN Ok("%lu")
    ELSE IF return_type = "float" THEN Ok("%f")
    ELSE IF return_type = "double" THEN Ok("%lf")
    ELSE IF return_type = "char" THEN Ok("%c")
    ELSE IF return_type \in {"char*", "char *", "string"} THEN Ok("%s")
    ELSE IF return_type = "void" THEN Ok("")
    ELSE Err("Unsupported return type: " \o return_type)

\* Generate the result declaration and function call.
generate_result_decl(signature, call_args) ==
    IF signature.return_type = "void"
    THEN signature.name \o "(" \o call_args \o ");"
    ELSE signature.return_type \o " result = " \o signature.name
         \o "(" \o call_args \o ");"

\* Generate the print statement for the result.
generate_print_stmt(return_type, format) ==
    IF return_type = "void" THEN "printf(\"done\\n\");"
    ELSE "printf(\"" \o format \o "\\n\", result);"

\* The text of the harness around the three parts.
HarnessText(user_code, result_decl, print_stmt) ==
    "#include <stdio.h>\n#include <stdlib.h>\n#include <string.h>\n\n"
    \o "// User's function\n" \o user_code \o "\n\n"
    \o "int main() {\n    " \o result_decl \o "\n    " \o print_stmt
    \o "\n    return 0;\n}\n"

\* Generate a complete C program that wraps the user's function with a test
\* harness.
generate_harness(user_code, signature, test_case) ==
    LET call_args == format_call_args(signature.parameters, test_case.input)
        print_format == get_print_format(signature.return_type)
    IN  IF ~call_args.ok THEN Err(call_args.err)
        ELSE IF ~print_format.ok THEN Err(print_format.err)
        ELSE Ok(HarnessText(user_code,
                            generate_result_decl(signature, call_args.val),
                            generate_print_stmt(signature.return_type,
                                                print_format.val)))

(***************************************************************************)
(* The signatures and test cases generate_harness is applied to.           *)
(***************************************************************************)
MaxArgs == 2

MaxStrLen == 3

UserCode == "int f() { return 0; }"

ParamTypes ==
    {"int", "long", "short", "unsigned int", "unsigned long", "size_t",
     "float", "double", "char", "char*", "char *", "const char*", "string",
     "int*", "int *", "const int*", "Point*", "char**", "bool", "INT",
     "long long", "void*"}

MoreParamTypes == {"int", "char*"}

ReturnTypes ==
    {"int", "short", "long", "unsigned int", "unsigned long", "size_t",
     "float", "double", "char", "char*", "char *", "string", "void",
     "bool", "int*", "long long", "unsigned short", "const char*"}

JsonValues ==
    {JInt(0), JInt(42), JInt(-7), JFloat(1500000), JFloat(-250000), JFloat(2000000),
     JString("NULL"), JString("null"), JString("a"), JString("ab"), JString(""),
     JString("5"), JArray(<< >>), JArray(<< JInt(10), JInt(20), JInt(30) >>),
     JArray(<< JInt(3), JInt(-1) >>), JArray(<< JInt(1), JString("x") >>),
     JArray(<< JInt(1), JFloat(2500000) >>), JBool(TRUE), JNull}

MoreJsonValues == {JInt(3), JString("hi")}

Parameter(t) == [name |-> "p", param_type |-> t]

\* Parameter lists and input lists of length k: the first element ranges over
\* the whole set, the others over the small one.
ParamListsOfLen(k) ==
    IF k = 0 THEN {<< >>}
    ELSE {<< Parameter(t) >> \o [i \in 1..(k - 1) |-> Parameter(rest[i])] :
              t \in ParamTypes, rest \in [1..(k - 1) -> MoreParamTypes]}

InputListsOfLen(k) ==
    IF k = 0 THEN {<< >>}
    ELSE {<< v >> \o rest : v \in JsonValues, rest \in [1..(k - 1) -> MoreJsonValues]}

StringAlphabet == {"a", "n", "\\", "\"", "\n", "\t", "\r"}

RECURSIVE StringsOfLen(_)
StringsOfLen(k) ==
    IF k = 0 THEN {""}
    ELSE {c \o s : c \in StringAlphabet, s \in StringsOfLen(k - 1)}

StringTypes == {"char*", "char *", "string"}

Signature(return_type, parameters) ==
    [name |-> "f", return_type |-> return_type, parameters |-> parameters]

TestCase(input) == [input |-> input, expected |-> "0", sample |-> TRUE]

\* The applications: every return type on a nullary and a unary function;
\* every parameter list against every input list; every string of the
\* alphabet for a string parameter.
HarnessInputs ==
    {<< Signature(r, ps[1]), TestCase(ps[2]) >> :
         r \in ReturnTypes,
         ps \in {<< << >>, << >> >>, << << Parameter("int") >>, << JInt(42) >> >>,
                 << << Parameter("int") >>, << JString("a") >> >>}}
    \cup {<< Signature("int", p), TestCase(v) >> :
              p \in UNION {ParamListsOfLen(k) : k \in 0..MaxArgs},
              v \in UNION {InputListsOfLen(k) : k \in 0..MaxArgs}}
    \cup {<< Signature("int", << Parameter(t) >>), TestCase(<< JString(s) >>) >> :
              t \in StringTypes, s \in UNION {StringsOfLen(k) : k \in 0..MaxStrLen}}

HarnessInit ==
    /\ \E a \in HarnessInputs : hsig = a[1] /\ hcase = a[2]
    /\ hout = << >>

\* hout is << >> until generate_harness has returned, then << its result >>.
HarnessGenerate ==
    /\ hout = << >>
    /\ hout' = << generate_harness(UserCode, hsig, hcase) >>
    /\ UNCHANGED <<hsig, hcase, submission, suite, response, game_state>>
    /\ UNCHANGED <<filterVars, pipeVars, unitVars>>

HarnessNext == HarnessGenerate

HarnessSpecInit == HarnessInit /\ SuiteIdle /\ FilterInit /\ PipeIdle /\ UnitIdle

SpecHarness == HarnessSpecInit /\ [][HarnessNext]_vars

(***************************************************************************)
(* Claims about the harness generator, checked under SpecHarness.          *)
(***************************************************************************)

\* C23: whenever the number of input values of the test case differs from the
\* number of parameters of the signature, in either direction, generate_harness
\* returns an error that names both counts and returns no harness text; the
\* inputs are never cut or padded to fit.
C23_CountMismatchIsAnError ==
    (hout # << >> /\ Len(hsig.parameters) # Len(hcase.input))
        => /\ ~hout[1].ok
           /\ hout[1].val = ""
           /\ hout[1].err = "Parameter count mismatch: expected "
                            \o to_string(Len(hsig.parameters)) \o ", got "
                            \o to_string(Len(hcase.input))

\* generate_harness has refused two inputs given for one int parameter, each of
\* which it accepts alone.
C23_Witness ==
    /\ hout # << >>
    /\ hsig.parameters = << Parameter("int") >>
    /\ hcase.input = << JInt(42), JInt(3) >>
    /\ ~hout[1].ok
    /\ hout[1].err = "Parameter count mismatch: expected 1, got 2"

\* The parameter types the generator supports: the scalars, the char-pointer
\* and string forms, the int-pointer forms (const-qualified forms included).
SupportedParamTypes ==
    {"int", "long", "short", "unsigned int", "unsigned long", "size_t",
     "float", "double", "char", "char*", "char *", "const char*", "string",
     "int*", "int *", "const int*"}

\* C24: for a signature with a parameter whose type string is outside the
\* supported vocabulary generate_harness returns an error; no unknown type
\* string is accepted by approximate matching and formatted as a supported one.
C24_UnknownTypeIsAnError ==
    (/\ hout # << >>
     /\ \E i \in DOMAIN hsig.parameters :
            hsig.parameters[i].param_type \notin SupportedParamTypes)
        => ~hout[1].ok

IntPointerForms == {"int*", "int *"}

\* The harness calls f with exactly this argument text.
CallsWith(args) ==
    hout[1].ok /\ Contains(hout[1].val, " result = f(" \o args \o ");\n")

IsIntegerArray(v) == v.t = "array" /\ \A i \in DOMAIN v.a : v.a[i].t = "int"

\* C25: for a pointer-to-int parameter the string "NULL" is emitted as the C
\* keyword NULL, an array of integers as the compound literal
\* (int[]){ e1, ..., en } with the elements in input order, a bare integer n as
\* &(int){n}, and every other input is an error.
C25_IntPointerDispatch ==
    (/\ hout # << >>
     /\ Len(hsig.parameters) = 1 /\ Len(hcase.input) = 1
     /\ hsig.parameters[1].param_type \in IntPointerForms)
        => LET v == hcase.input[1]
           IN  IF v = JString("NULL") THEN CallsWith("NULL")
               ELSE IF IsIntegerArray(v)
               THEN CallsWith("(int[]){ "
                              \o Join([i \in DOMAIN v.a |-> to_string(v.a[i].n)], ", ")
                              \o " }")
               ELSE IF v.t = "int" THEN CallsWith("&(int){" \o to_string(v.n) \o "}")
               ELSE ~hout[1].ok /\ hout[1].val = ""

\* The array [10, 20, 30] given for an int* parameter has been emitted as a
\* compound literal.
C25_Witness ==
    /\ hout # << >>
    /\ hsig.parameters = << Parameter("int*") >>
    /\ hcase.input = << JArray(<< JInt(10), JInt(20), JInt(30) >>) >>
    /\ CallsWith("(int[]){ 10, 20, 30 }")

ScalarParamTypes ==
    {"int", "long", "short", "unsigned int", "unsigned long", "size_t",
     "float", "double", "char"}

\* The JSON type the declared scalar type asks for.
JsonTypeMatches(param_type, v) ==
    IF param_type \in {"int", "long", "short"} THEN v.t = "int"
    ELSE IF param_type \in {"unsigned int", "unsigned long", "size_t"}
    THEN v.t = "int" /\ v.n >= 0
    ELSE IF param_type \in {"float", "double"} THEN v.t \in {"int", "float"}
    ELSE v.t = "string" /\ Len(v.s) = 1

\* C26: a harness is emitted only if every scalar parameter's input has the
\* JSON type its declared type asks for (integer, non-negative integer, number,
\* one-character string); a mismatch makes generate_harness return an error,
\* and a lone scalar parameter with a matching input is accepted.
C26_ScalarTypesMustMatch ==
    (hout # << >> /\ Len(hsig.parameters) = Len(hcase.input))
        => /\ hout[1].ok =>
                  \A i \in DOMAIN hsig.parameters :
                      hsig.parameters[i].param_type \in ScalarParamTypes
                          => JsonTypeMatches(hsig.parameters[i].param_type,
                                             hcase.input[i])
           /\ (/\ Len(hsig.parameters) = 1
               /\ hsig.return_type = "int"
               /\ hsig.parameters[1].param_type \in ScalarParamTypes
               /\ JsonTypeMatches(hsig.parameters[1].param_type, hcase.input[1]))
                  => hout[1].ok

\* generate_harness has refused the string "5" given for an int parameter.
C26_Witness ==
    /\ hout # << >>
    /\ hsig.parameters = << Parameter("int") >>
    /\ hcase.input = << JString("5") >>
    /\ ~hout[1].ok
    /\ hout[1].val = ""

\* The printf conversion of each supported non-void return type.
ReturnConversion ==
    [t \in {"int", "short", "long", "unsigned int", "unsigned long", "size_t",
            "float", "double", "char", "char*", "char *", "string"} |->
        IF t \in {"int", "short"} THEN "%d"
        ELSE IF t = "long" THEN "%ld"
        ELSE IF t = "unsigned int" THEN "%u"
        ELSE IF t \in {"unsigned long", "size_t"} THEN "%lu"
        ELSE IF t = "float" THEN "%f"
        ELSE IF t = "double" THEN "%lf"
        ELSE IF t = "char" THEN "%c"
        ELSE "%s"]

\* The body of main for a call of f on a nullary function or on the int 42.
MainBody(decl, print) ==
    "int main() {\n    " \o decl \o "\n    " \o print \o "\n    return 0;\n}\n"

\* C27: a void return emits the call as a statement followed by the fixed
\* print of "done"; every other supported return type T emits
\* `T result = f(args);` followed by a printf of result with T's conversion;
\* an unsupported return type gives an error and no harness text.
C27_ReturnHandling ==
    (/\ hout # << >>
     /\ << hsig.parameters, hcase.input >>
            \in {<< << >>, << >> >>, << << Parameter("int") >>, << JInt(42) >> >>})
        => LET args == IF hcase.input = << >> THEN "" ELSE "42"
               r == hsig.return_type
           IN  IF r = "void"
               THEN /\ hout[1].ok
                    /\ Contains(hout[1].val,
                                MainBody("f(" \o args \o ");", "printf(\"done\\n\");"))
               ELSE IF r \in DOMAIN ReturnConversion
               THEN /\ hout[1].ok
                    /\ Contains(hout[1].val,
                                MainBody(r \o " result = f(" \o args \o ");",
                                         "printf(\"" \o ReturnConversion[r]
                                             \o "\\n\", result);"))
               ELSE ~hout[1].ok /\ hout[1].val = ""

\* A harness has been generated for a void function, and one has been refused
\* for nothing but its return type.
C27_Witness ==
    /\ hout # << >>
    /\ hsig.parameters = << >>
    /\ \/ hsig.return_type = "void" /\ hout[1].ok
       \/ hsig.return_type = "bool" /\ hout[1].err = "Unsupported return type: bool"

\* The character an escape sequence of C stands for.
Unescape(e) ==
    IF e = "n" THEN "\n" ELSE IF e = "t" THEN "\t" ELSE IF e = "r" THEN "\r" ELSE e

\* The content of a C string literal decoded by the C escape rules: << s >>, or
\* << >> if the content holds an unescaped double quote, a raw newline, tab or
\* carriage return, or a backslash that starts no escape sequence.
RECURSIVE CDecode(_)
CDecode(body) ==
    IF body = "" THEN << "" >>
    ELSE IF SubSeq(body, 1, 1) = "\\"
    THEN IF Len(body) < 2 \/ SubSeq(body, 2, 2) \notin {"\\", "\"", "n", "t", "r"}
         THEN << >>
         ELSE LET rest == CDecode(SubSeq(body, 3, Len(body)))
              IN  IF rest = << >> THEN << >>
                  ELSE << Unescape(SubSeq(body, 2, 2)) \o rest[1] >>
    ELSE IF SubSeq(body, 1, 1) \in {"\"", "\n", "\t", "\r"} THEN << >>
    ELSE LET rest == CDecode(SubSeq(body, 2, Len(body)))
         IN  IF rest = << >> THEN << >> ELSE << SubSeq(body, 1, 1) \o rest[1] >>

\* The harness of an int function up to the argument list, and after it.
CallPrefix ==
    "#include <stdio.h>\n#include <stdlib.h>\n#include <string.h>\n\n"
    \o "// User's function\n" \o UserCode \o "\n\nint main() {\n    int result = f("

CallSuffix == ");\n    printf(\"%d\\n\", result);\n    return 0;\n}\n"

\* The argument list of the generated harness.
EmittedArgs == SubSeq(hout[1].val, Len(CallPrefix) + 1, Len(hout[1].val) - Len(CallSuffix))

\* C28: for every string over an alphabet with backslash, double quote,
\* newline, tab and carriage return given for a string parameter, the emitted
\* argument is a literal enclosed in double quotes whose content has no
\* unescaped double quote and no raw newline, tab or carriage return, and which
\* decodes by the C escape rules to the original string.
C28_StringEscapingRoundTrips ==
    (/\ hout # << >>
     /\ Len(hsig.parameters) = 1 /\ Len(hcase.input) = 1
     /\ hsig.return_type = "int"
     /\ hsig.parameters[1].param_type \in StringTypes
     /\ hcase.input[1].t = "string")
        => /\ hout[1].ok
           /\ hout[1].val = CallPrefix \o EmittedArgs \o CallSuffix
           /\ Len(EmittedArgs) >= 2
           /\ SubSeq(EmittedArgs, 1, 1) = "\""
           /\ SubSeq(EmittedArgs, Len(EmittedArgs), Len(EmittedArgs)) = "\""
           /\ CDecode(SubSeq(EmittedArgs, 2, Len(EmittedArgs) - 1))
                  = << hcase.input[1].s >>

\* The string of a backslash, a double quote and a newline has been emitted as
\* a literal of eight characters.
C28_Witness ==
    /\ hout # << >>
    /\ hsig.parameters = << Parameter("char*") >>
    /\ hcase.input = << JString("\\\"\n") >>
    /\ hout[1].ok
    /\ EmittedArgs = "\"\\\\\\\"\\n\""

(***************************************************************************)
(* The submission handlers of the API server (src-api/src/main.rs) over    *)
(* one user's session: load_level, submit_code with                        *)
(* run_function_based_challenge, and submit_quest_code. game_state is the  *)
(* session cached for the user; suite holds the locals of the handler in   *)
(* flight, suspended at its compile_and_run().await; response is           *)
(* << >> until the handler has returned, then << its result >>.            *)
(***************************************************************************)
compile_success(output) == output.compile_error = << >>

run_success(output) ==
    /\ compile_success(output)
    /\ output.runtime_error = << >>
    /\ ~output.timed_out
    /\ output.exit_code = << 0 >>

Whitespace == {" ", "\n", "\t", "\r"}

RECURSIVE TrimStart(_)
TrimStart(s) ==
    IF s # "" /\ SubSeq(s, 1, 1) \in Whitespace THEN TrimStart(SubSeq(s, 2, Len(s)))
    ELSE s

RECURSIVE TrimEnd(_)
TrimEnd(s) ==
    IF s # "" /\ SubSeq(s, Len(s), Len(s)) \in Whitespace
    THEN TrimEnd(SubSeq(s, 1, Len(s) - 1))
    ELSE s

\* str::trim
Trim(s) == TrimEnd(TrimStart(s))

\* usize::saturating_sub
saturating_sub(a, b) == IF a >= b THEN a - b ELSE 0

(***************************************************************************)
(* The levels of the registry. L01 is a legacy output-based level, L02 a   *)
(* function-based level, L03 a level of two quests, L04 a function-based   *)
(* level whose second test case has one input too few.                     *)
(***************************************************************************)
LevelIds == {"L01", "L02", "L03", "L04"}

Case(input, expected, sample) == [input |-> input, expected |-> expected, sample |-> sample]

AddSignature ==
    [name |-> "add", return_type |-> "int",
     parameters |-> << Parameter("int"), Parameter("int") >>]

Prerequisites(requires_all, requires_any, min_xp) ==
    [requires_all |-> requires_all, requires_any |-> requires_any, min_xp |-> min_xp]

Quest(id, test_cases, xp_reward) ==
    [id |-> id, function_signature |-> AddSignature, test_cases |-> test_cases,
     xp_reward |-> xp_reward]

ExactMatch(expected_stdout) == [type |-> "exact_match", expected_stdout |-> expected_stdout]

LevelData(id, quests, function_signature, test_cases, success_criteria, xp_reward, prerequisites) ==
    [id |-> id, quests |-> quests, function_signature |-> function_signature,
     test_cases |-> test_cases, success_criteria |-> success_criteria,
     xp_reward |-> xp_reward, prerequisites |-> prerequisites]

LevelTable ==
    [l \in LevelIds |->
        IF l = "L01"
        THEN LevelData(l, << >>, << >>, << >>, << ExactMatch("Hello") >>, 50,
                       Prerequisites(<< >>, << >>, 0))
        ELSE IF l = "L02"
        THEN LevelData(l, << >>, << AddSignature >>,
                       << Case(<< JInt(2), JInt(3) >>, "5", TRUE),
                          Case(<< JInt(10), JInt(20) >>, "30\n", FALSE) >>,
                       << >>, 100, Prerequisites(<< >>, << >>, 0))
        ELSE IF l = "L03"
        THEN LevelData(l,
                       << Quest("Q1", << Case(<< JInt(1), JInt(1) >>, "2", TRUE),
                                         Case(<< JInt(2), JInt(3) >>, "5", TRUE) >>, 30),
                          Quest("Q2", << Case(<< JInt(0), JInt(5) >>, "5", FALSE) >>, 20) >>,
                       << >>, << >>, << >>, 100,
                       Prerequisites(<< "L01" >>, << "L02", "L04" >>, 150))
        ELSE LevelData(l, << >>, << AddSignature >>,
                       << Case(<< JInt(2), JInt(3) >>, "5", TRUE),
                          Case(<< JInt(7) >>, "7", FALSE) >>,
                       << >>, 10, Prerequisites(<< >>, << >>, 0))]

\* LevelRegistry::get_prerequisites
get_prerequisites == [l \in LevelIds |-> LevelTable[l].prerequisites]

is_function_based(level) == level.function_signature # << >> /\ level.test_cases # << >>

\* Get quests for this level: the quests array if defined, otherwise a single
\* quest made from the function-based fields, otherwise none.
get_quests(level) ==
    IF level.quests # << >> THEN level.quests
    ELSE IF level.function_signature # << >>
    THEN << [id |-> level.id \o "_Q1",
             function_signature |-> level.function_signature[1],
             test_cases |-> level.test_cases, xp_reward |-> level.xp_reward] >>
    ELSE << >>

QuestKeys ==
    UNION {{get_quests(LevelTable[l])[i].id : i \in DOMAIN get_quests(LevelTable[l])} :
               l \in LevelIds}

\* SuccessCriteria::validate, for the criteria ExactMatch and CompileOnly.
validate(criteria, output) ==
    IF criteria.type = "exact_match"
    THEN Trim(output.stdout) = Trim(criteria.expected_stdout)
    ELSE compile_success(output)

\* Validate execution output against level criteria (legacy).
validate_output(level, output) ==
    IF ~compile_success(output) THEN FALSE
    ELSE IF level.success_criteria # << >> THEN validate(level.success_criteria[1], output)
    ELSE FALSE

(***************************************************************************)
(* game/progression.rs and game/state.rs. The maps level_xp, quest_xp and  *)
(* completed_quests are total functions: << >> and {} stand for a key that *)
(* is absent.                                                              *)
(***************************************************************************)
ProgressionNew ==
    [completed_levels |-> {}, unlocked_levels |-> {"L01"}, total_xp |-> 0,
     level_xp |-> [l \in LevelIds |-> << >>],
     completed_quests |-> [l \in LevelIds |-> {}],
     quest_xp |-> [q \in QuestKeys |-> << >>]]

GameStateNew ==
    [player_xp |-> 0, current_level_id |-> << >>, game_phase |-> "MainMenu",
     progression |-> ProgressionNew, active_quest_id |-> << >>, total_xp |-> 0,
     levels_completed |-> {}]

\* The mutation: the XP threshold must be exceeded, not only reached.
is_satisfied_above_min_xp(prereqs, completed, total_xp) ==
    /\ total_xp > prereqs.min_xp
    /\ \A i \in DOMAIN prereqs.requires_all : prereqs.requires_all[i] \in completed
    /\ \/ prereqs.requires_any = << >>
       \/ \E i \in DOMAIN prereqs.requires_any : prereqs.requires_any[i] \in completed

\* Check if prerequisites are met given completed levels and XP.
is_satisfied(prereqs, completed, total_xp) ==
    /\ total_xp >= prereqs.min_xp
    /\ \A i \in DOMAIN prereqs.requires_all : prereqs.requires_all[i] \in completed
    /\ \/ prereqs.requires_any = << >>
       \/ \E i \in DOMAIN prereqs.requires_any : prereqs.requires_any[i] \in completed

\* The mutation: a replay is rewarded like a first completion.
progression_complete_level_replaying(p, level_id, xp_reward) ==
    [p |-> [p EXCEPT !.completed_levels = @ \cup {level_id},
                     !.total_xp = @ + xp_reward,
                     !.level_xp[level_id] = << xp_reward >>],
     xp |-> xp_reward]

\* ProgressionState::complete_level: the new state and the XP earned.
progression_complete_level(p, level_id, xp_reward) ==
    IF level_id \notin p.completed_levels
    THEN [p |-> [p EXCEPT !.completed_levels = @ \cup {level_id},
                          !.total_xp = @ + xp_reward,
                          !.level_xp[level_id] = << xp_reward >>],
          xp |-> xp_reward]
    ELSE [p |-> p, xp |-> 0]

\* Update unlocked levels based on prerequisites.
update_unlocks(p, prerequisites) ==
    [p EXCEPT !.unlocked_levels =
        @ \cup {l \in DOMAIN prerequisites :
                    is_satisfied(prerequisites[l], p.completed_levels, p.total_xp)}]

\* ProgressionState::complete_quest: the new state and the XP earned.
progression_complete_quest(p, level_id, quest_id, xp_reward) ==
    IF quest_id \notin p.completed_quests[level_id]
    THEN [p |-> [p EXCEPT !.completed_quests[level_id] = @ \cup {quest_id},
                          !.total_xp = @ + xp_reward,
                          !.quest_xp[quest_id] = << xp_reward >>],
          xp |-> xp_reward]
    ELSE [p |-> p, xp |-> 0]

get_completed_quest_count(p, level_id) == Cardinality(p.completed_quests[level_id])

\* The mutation: the count must exceed total_quests.
is_level_fully_completed_strictly(p, level_id, total_quests) ==
    get_completed_quest_count(p, level_id) > total_quests

is_level_fully_completed(p, level_id, total_quests) ==
    get_completed_quest_count(p, level_id) >= total_quests

start_level(gs, level_id) ==
    [gs EXCEPT !.current_level_id = << level_id >>, !.game_phase = "Playing"]

\* GameState::complete_level: complete the current level, award XP.
complete_level(gs, xp_reward) ==
    LET done == IF gs.current_level_id # << >>
                THEN progression_complete_level(gs.progression,
                                                gs.current_level_id[1], xp_reward)
                ELSE [p |-> gs.progression, xp |-> 0]
    IN  [gs |-> [gs EXCEPT !.progression = done.p,
                           !.player_xp = @ + done.xp,
                           !.total_xp = done.p.total_xp,
                           !.levels_completed = done.p.completed_levels,
                           !.game_phase = "LevelComplete"],
         xp |-> done.xp]

update_unlocked_levels(gs, prerequisites) ==
    [gs EXCEPT !.progression = update_unlocks(@, prerequisites)]

\* GameState::complete_quest
complete_quest(gs, level_id, quest_id, xp_reward) ==
    LET done == progression_complete_quest(gs.progression, level_id, quest_id, xp_reward)
    IN  [gs |-> [gs EXCEPT !.progression = done.p,
                           !.player_xp = @ + done.xp,
                           !.total_xp = done.p.total_xp],
         xp |-> done.xp]

\* Complete level when all quests are done: the new state and << 0 >>, or the
\* state as it is and << >>.
maybe_complete_level(gs, total_quests) ==
    IF /\ gs.current_level_id # << >>
       /\ is_level_fully_completed(gs.progression, gs.current_level_id[1], total_quests)
       /\ gs.current_level_id[1] \notin gs.progression.completed_levels
    THEN [gs |-> [gs EXCEPT
                     !.progression.completed_levels = @ \cup {gs.current_level_id[1]},
                     !.levels_completed =
                         gs.progression.completed_levels \cup {gs.current_level_id[1]},
                     !.game_phase = "LevelComplete"],
          ret |-> << 0 >>]
    ELSE [gs |-> gs, ret |-> << >>]

(***************************************************************************)
(* The sources players submit, and what compile_and_run returns for them.  *)
(***************************************************************************)
CodeSum == "int add(int a, int b) { return a + b; }"

CodeFive == "int add(int a, int b) { return 5; }"

CodeSyntax == "int add(int a, int b) { return a + b }"

CodeSumExit == "int add(int a, int b) { printf(\"%d\\n\", a + b); exit(1); }"

CodeHello == "int main() { printf(\"Hello\\n\"); return 0; }"

CodeHelloFail == "int main() { printf(\"Hello\\n\"); return 1; }"

\* What each source is: whether gcc accepts it, whether it defines main, what
\* it writes to stdout and how the process ends.
Programs ==
    (CodeSum :> [parses |-> TRUE, main |-> FALSE, prints |-> "sum", ending |-> "exit0"])
    @@ (CodeFive :> [parses |-> TRUE, main |-> FALSE, prints |-> "five", ending |-> "exit0"])
    @@ (CodeSyntax :> [parses |-> FALSE, main |-> FALSE, prints |-> "sum", ending |-> "exit0"])
    @@ (CodeSumExit :> [parses |-> TRUE, main |-> FALSE, prints |-> "sum", ending |-> "exit1"])
    @@ (CodeHello :> [parses |-> TRUE, main |-> TRUE, prints |-> "hello", ending |-> "exit0"])
    @@ (CodeHelloFail :> [parses |-> TRUE, main |-> TRUE, prints |-> "hello", ending |-> "exit1"])

Codes == DOMAIN Programs

\* The source builds: it parses and the program has exactly one main, its own
\* or the harness's. call is << >> for the source alone and << input >> for
\* the source inside the harness of a test case.
Builds(code, call) == Programs[code].parses /\ (Programs[code].main <=> call = << >>)

ProgramStdout(code, call) ==
    IF Programs[code].prints = "hello" THEN "Hello\n"
    ELSE IF Programs[code].prints = "five" THEN "5\n"
    ELSE to_string(call[1][1].n + call[1][2].n) \o "\n"

GccErrors == "code.c: error: compilation failed"

RunOk(output) == [ok |-> TRUE, err |-> "", out |-> output]

RunErr(msg) == [ok |-> FALSE, err |-> msg, out |-> DefaultOutput]

\* The results compile_and_run can return for the source: an error of the
\* orchestrator, a compiler timeout, the compiler's errors, the run of the
\* program, or a timeout of the run.
CompileAndRunResults(code, call) ==
    {RunErr("Failed to execute: gcc"), RunOk(CompileErrorOutput(TimedOutResult))}
    \cup (IF Builds(code, call)
          THEN {RunOk(ExecutionOutputOfRun(
                          CompletedResult(ProgramStdout(code, call), "",
                                          Programs[code].ending))),
                RunOk(ExecutionOutputOfRun(TimedOutResult))}
          ELSE {RunOk(CompileErrorOutput(CompletedResult("", GccErrors, "exit1")))})

(***************************************************************************)
(* Requests, activations and responses.                                    *)
(***************************************************************************)
Request(handler, level_id, quest_id, code, test_only) ==
    [handler |-> handler, level_id |-> level_id, quest_id |-> quest_id,
     code |-> code, test_only |-> test_only]

NoRequest == Request("", "", "", "", FALSE)

NoSignature == [name |-> "", return_type |-> "", parameters |-> << >>]

\* The locals of a handler: the level and quest it serves, the filtered test
\* cases, the index of the test case in flight, the results so far, its copy of
\* the game state; and the history of the activation: the indices of the test
\* cases given to generate_harness (gens) and to compile_and_run (runs), and
\* the outputs compile_and_run returned (outs).
IdleActivation ==
    [pc |-> "idle", level_id |-> "", xp_reward |-> 0, total_quests |-> 0,
     signature |-> NoSignature, test_cases |-> << >>, i |-> 0, harness |-> "",
     results |-> << >>, local |-> GameStateNew, before |-> GameStateNew,
     gens |-> << >>, runs |-> << >>, outs |-> << >>]

TestCaseResult(input, expected, actual, passed) ==
    [input |-> input, expected |-> expected, actual |-> actual, passed |-> passed]

TestSuiteResult(passed, total, passed_count, results, compilation_error) ==
    [passed |-> passed, total |-> total, passed_count |-> passed_count,
     results |-> results, compilation_error |-> compilation_error]

SubmitCodeResponse(success, stdout, stderr, compile_error, xp_earned, doors_unlocked, test_results) ==
    [ok |-> TRUE, status |-> 200, message |-> "", success |-> success,
     stdout |-> stdout, stderr |-> stderr, compile_error |-> compile_error,
     xp_earned |-> xp_earned, doors_unlocked |-> doors_unlocked,
     test_results |-> test_results]

\* Err((StatusCode, String))
ErrResponse(status, message) ==
    [ok |-> FALSE, status |-> status, message |-> message, success |-> FALSE,
     stdout |-> "", stderr |-> "", compile_error |-> << >>, xp_earned |-> << >>,
     doors_unlocked |-> FALSE, test_results |-> << >>]

\* Ok(Json(LoadLevelResponse))
LoadLevelResponse == SubmitCodeResponse(FALSE, "", "", << >>, << >>, FALSE, << >>)

\* Filter test cases: sample only for TEST, all for SUBMIT.
FilterTestCases(test_cases, test_only) ==
    SelectSeq(test_cases, LAMBDA tc : ~test_only \/ tc.sample)

\* The mutation: a compilation error does not end the loop.
ShortCircuitsNever(execution_result) == FALSE

\* if let Some(ref err) = execution_result.compile_error
ShortCircuits(execution_result) == execution_result.compile_error # << >>

\* The response of the suite to a compilation error.
CompileErrorResponse(test_cases, execution_result) ==
    SubmitCodeResponse(FALSE, "", execution_result.stderr,
                       execution_result.compile_error, << >>, FALSE,
                       << TestSuiteResult(FALSE, Len(test_cases), 0, << >>,
                                          execution_result.compile_error) >>)

\* The result of one test case: the trimmed output against the trimmed
\* expected string.
Grade(test_case, execution_result) ==
    TestCaseResult(test_case.input, Trim(test_case.expected),
                   Trim(execution_result.stdout),
                   Trim(execution_result.stdout) = Trim(test_case.expected))

PassedCount(results) == Cardinality({k \in DOMAIN results : results[k].passed})

\* The TestSuiteResult of a loop that ran to its end.
Aggregate(results) ==
    TestSuiteResult(PassedCount(results) = Len(results), Len(results),
                    PassedCount(results), results, << >>)

(***************************************************************************)
(* The handlers. Each action runs a handler from one suspension point to   *)
(* the next: from its entry to the first compile_and_run().await or to its *)
(* return, and from the return of compile_and_run to the next one or to    *)
(* the handler's return.                                                   *)
(***************************************************************************)
QuestIds == {"Q1", "Q2", "L02_Q1"}

SuiteInit ==
    /\ submission = NoRequest
    /\ suite = IdleActivation
    /\ response = << >>
    /\ game_state = GameStateNew

\* The handler returns without writing the session.
Return(s, resp) ==
    /\ suite' = [s EXCEPT !.pc = "done"]
    /\ response' = << resp >>
    /\ UNCHANGED game_state

\* persist_session, then the handler returns: the cache takes the state, and
\* the write to the database succeeds or fails.
Persist(s, gs, resp) ==
    \E db_ok \in BOOLEAN :
        /\ suite' = [s EXCEPT !.pc = "done", !.local = gs]
        /\ game_state' = gs
        /\ response' = << IF db_ok THEN resp
                          ELSE ErrResponse(500, "Failed to update user session") >>

\* The loop reaches test case k: the harness is generated and handed to
\* compile_and_run, or the handler returns the generator's error.
EnterCase(s, code, k) ==
    LET harness == generate_harness(code, s.signature, s.test_cases[k])
        t == [s EXCEPT !.i = k, !.gens = Append(@, k)]
    IN  IF ~harness.ok
        THEN Return(t, ErrResponse(500, "Failed to generate test harness: "
                                        \o harness.err))
        ELSE /\ suite' = [t EXCEPT !.pc = "running", !.harness = harness.val,
                                   !.runs = Append(@, k)]
             /\ response' = << >>
             /\ UNCHANGED game_state

\* The test cases are filtered and the loop is entered.
BeginSuite(level_id, signature, all_cases, xp_reward, total_quests, code, test_only, empty_message) ==
    LET s == [IdleActivation EXCEPT
                 !.level_id = level_id, !.signature = signature,
                 !.test_cases = FilterTestCases(all_cases, test_only),
                 !.xp_reward = xp_reward, !.total_quests = total_quests,
                 !.local = game_state, !.before = game_state]
    IN  IF s.test_cases = << >> THEN Return(s, ErrResponse(400, empty_message))
        ELSE EnterCase(s, code, 1)

\* load_level
LoadLevel(level_id) ==
    /\ suite.pc \in {"idle", "done"}
    /\ submission' = Request("load_level", level_id, "", "", FALSE)
    /\ LET s == [IdleActivation EXCEPT !.level_id = level_id, !.local = game_state,
                                       !.before = game_state]
       IN  IF level_id \notin game_state.progression.unlocked_levels
           THEN Return(s, ErrResponse(403, "Level '" \o level_id \o "' is locked"))
           ELSE Persist(s, update_unlocked_levels(start_level(game_state, level_id),
                                                  get_prerequisites),
                        LoadLevelResponse)
    /\ UNCHANGED <<filterVars, pipeVars, hsig, hcase, hout, unitVars>>

\* submit_code, to its first await.
SubmitCode(code, test_only) ==
    /\ suite.pc \in {"idle", "done"}
    /\ submission' = Request("submit_code", "", "", code, test_only)
    /\ IF game_state.current_level_id = << >>
       THEN Return([IdleActivation EXCEPT !.local = game_state, !.before = game_state],
                   ErrResponse(400, "No level currently loaded"))
       ELSE LET level == LevelTable[game_state.current_level_id[1]]
            IN  IF is_function_based(level)
                THEN BeginSuite(level.id, level.function_signature[1], level.test_cases,
                                level.xp_reward, 0, code, test_only,
                                "No test cases defined for this level")
                ELSE /\ suite' = [IdleActivation EXCEPT
                                     !.pc = "legacy", !.level_id = level.id,
                                     !.xp_reward = level.xp_reward,
                                     !.local = game_state, !.before = game_state,
                                     !.runs = << 0 >>]
                     /\ response' = << >>
                     /\ UNCHANGED game_state
    /\ UNCHANGED <<filterVars, pipeVars, hsig, hcase, hout, unitVars>>

\* submit_quest_code, to its first await.
SubmitQuestCode(quest_id, code, test_only) ==
    /\ suite.pc \in {"idle", "done"}
    /\ submission' = Request("submit_quest_code", "", quest_id, code, test_only)
    /\ IF game_state.current_level_id = << >>
       THEN Return([IdleActivation EXCEPT !.local = game_state, !.before = game_state],
                   ErrResponse(400, "No level currently loaded"))
       ELSE LET level == LevelTable[game_state.current_level_id[1]]
                quests == get_quests(level)
                found == {k \in DOMAIN quests : quests[k].id = quest_id}
            IN  IF found = {}
                THEN Return([IdleActivation EXCEPT !.level_id = level.id,
                                                   !.local = game_state,
                                                   !.before = game_state],
                            ErrResponse(404, "Quest '" \o quest_id \o "' not found"))
                ELSE LET quest == quests[CHOOSE k \in found : \A j \in found : k <= j]
                     IN  BeginSuite(level.id, quest.function_signature,
                                    quest.test_cases, quest.xp_reward, Len(quests),
                                    code, test_only,
                                    "No test cases defined for this quest")
    /\ UNCHANGED <<filterVars, pipeVars, hsig, hcase, hout, unitVars>>

\* submit_code (legacy), from the return of compile_and_run to its return.
LegacyFinish(s, execution_result) ==
    LET level == LevelTable[s.level_id]
        success == validate_output(level, execution_result)
        completes == /\ execution_result.compile_error = << >>
                     /\ ~execution_result.timed_out
                     /\ success
        done == complete_level(s.local, level.xp_reward)
    IN  Persist(s,
                IF completes THEN update_unlocked_levels(done.gs, get_prerequisites)
                ELSE s.local,
                SubmitCodeResponse(success, execution_result.stdout,
                                   execution_result.stderr,
                                   execution_result.compile_error,
                                   IF completes THEN << done.xp >> ELSE << >>,
                                   success, << >>))

\* run_function_based_challenge, after the loop.
LevelFinish(s) ==
    LET test_suite == Aggregate(s.results)
        completes == test_suite.passed /\ ~submission.test_only
        done == complete_level(s.local, s.xp_reward)
    IN  Persist(s,
                IF completes THEN update_unlocked_levels(done.gs, get_prerequisites)
                ELSE s.local,
                SubmitCodeResponse(test_suite.passed, "", "", << >>,
                                   IF completes THEN << done.xp >> ELSE << >>,
                                   completes, << test_suite >>))

\* submit_quest_code, after the loop.
QuestFinish(s) ==
    LET test_suite == Aggregate(s.results)
        done == complete_quest(s.local, s.level_id, submission.quest_id, s.xp_reward)
        quests_remaining ==
            saturating_sub(s.total_quests,
                           get_completed_quest_count(done.gs.progression, s.level_id))
        level_done == IF quests_remaining = 0
                      THEN maybe_complete_level(done.gs, s.total_quests)
                      ELSE [gs |-> done.gs, ret |-> << >>]
    IN  IF test_suite.passed /\ ~submission.test_only
        THEN Persist(s,
                     [update_unlocked_levels(level_done.gs, get_prerequisites)
                         EXCEPT !.active_quest_id = << >>],
                     SubmitCodeResponse(TRUE, "", "", << >>, << done.xp >>,
                                        level_done.ret # << >>, << test_suite >>))
        ELSE Return(s, SubmitCodeResponse(test_suite.passed, "", "", << >>, << >>,
                                          FALSE, << test_suite >>))

\* The loop of run_function_based_challenge and of submit_quest_code, from the
\* return of compile_and_run for test case i to the next await or the return.
SuiteRunReturns ==
    /\ suite.pc = "running"
    /\ \E r \in CompileAndRunResults(submission.code,
                                     << suite.test_cases[suite.i].input >>) :
           IF ~r.ok THEN Return(suite, ErrResponse(500, r.err))
           ELSE LET s == [suite EXCEPT !.outs = Append(@, r.out)]
                    t == [s EXCEPT !.results =
                                      Append(@, Grade(s.test_cases[s.i], r.out))]
                IN  IF ShortCircuits(r.out)
                    THEN Return(s, CompileErrorResponse(s.test_cases, r.out))
                    ELSE IF s.i < Len(s.test_cases)
                    THEN EnterCase(t, submission.code, s.i + 1)
                    ELSE IF submission.handler = "submit_code" THEN LevelFinish(t)
                    ELSE QuestFinish(t)
    /\ UNCHANGED <<submission, filterVars, pipeVars, hsig, hcase, hout, unitVars>>

\* submit_code (legacy), from the return of compile_and_run.
LegacyRunReturns ==
    /\ suite.pc = "legacy"
    /\ \E r \in CompileAndRunResults(submission.code, << >>) :
           IF ~r.ok THEN Return(suite, ErrResponse(500, r.err))
           ELSE LegacyFinish([suite EXCEPT !.outs = Append(@, r.out)], r.out)
    /\ UNCHANGED <<submission, filterVars, pipeVars, hsig, hcase, hout, unitVars>>

SuiteNext ==
    \/ \E level_id \in LevelIds : LoadLevel(level_id)
    \/ \E code \in Codes, test_only \in BOOLEAN : SubmitCode(code, test_only)
    \/ \E quest_id \in QuestIds, code \in Codes, test_only \in BOOLEAN :
           SubmitQuestCode(quest_id, code, test_only)
    \/ SuiteRunReturns
    \/ LegacyRunReturns

SuiteSpecInit == SuiteInit /\ HarnessIdle /\ FilterInit /\ PipeIdle /\ UnitIdle

SpecSuite == SuiteSpecInit /\ [][SuiteNext]_vars

(***************************************************************************)
(* Claims about the submission handlers, checked under SpecSuite.          *)
(***************************************************************************)

\* C21: a test case is counted as passed, and a legacy submission as
\* successful, only if the run it grades compiled, has no runtime error, did
\* not time out and exited with code 0 (ExecutionOutput::run_success).
C21_GradingUsesRunSuccess ==
    /\ \A k \in DOMAIN suite.results :
           suite.results[k].passed => run_success(suite.outs[k])
    /\ (/\ suite.runs = << 0 >>
        /\ response # << >>
        /\ response[1].ok /\ response[1].success)
           => run_success(suite.outs[1])

HarnessErrorPrefix == "Failed to generate test harness: "

\* The handler has returned the error of generate_harness.
HarnessErrorReturned ==
    /\ response # << >>
    /\ ~response[1].ok
    /\ Len(response[1].message) >= Len(HarnessErrorPrefix)
    /\ SubSeq(response[1].message, 1, Len(HarnessErrorPrefix)) = HarnessErrorPrefix

\* C22: when generate_harness fails for a test case of a suite, no
\* compile_and_run has been performed for any test case of that suite.
C22_HarnessErrorBeforeAnyCompilation ==
    HarnessErrorReturned => suite.runs = << >>

\* C29: at the first test case of a suite whose run has compile_error set the
\* suite ends:
\* no further test case is generated, compiled or executed, the handler
\* returns a TestSuiteResult with passed = false, passed_count = 0, no
\* results and the compilation error, and the session and the handler's copy
\* of the game state are as they were when the request arrived.
C29_CompileErrorShortCircuits ==
    (/\ suite.test_cases # << >>
     /\ suite.outs # << >>
     /\ suite.outs[Len(suite.outs)].compile_error # << >>)
        => /\ suite.pc = "done"
           /\ suite.gens = [k \in 1..Len(suite.outs) |-> k]
           /\ suite.runs = suite.gens
           /\ response # << >>
           /\ response[1].ok
           /\ ~response[1].success
           /\ response[1].xp_earned = << >>
           /\ response[1].test_results # << >>
           /\ ~response[1].test_results[1].passed
           /\ response[1].test_results[1].passed_count = 0
           /\ response[1].test_results[1].results = << >>
           /\ response[1].test_results[1].compilation_error
                  = suite.outs[Len(suite.outs)].compile_error
           /\ game_state = suite.before
           /\ suite.local = suite.before

\* The second test case of a submission did not compile after the first had
\* passed, for a player who has XP.
C29_Witness ==
    /\ suite.pc = "done"
    /\ Len(suite.outs) = 2
    /\ suite.results[1].passed
    /\ suite.outs[2].compile_error # << >>
    /\ ~submission.test_only
    /\ game_state.progression.total_xp > 0
    /\ response # << >>
    /\ response[1].test_results # << >>

\* C30: each test case of a suite is compiled and executed once, in order,
\* and in every TestSuiteResult total is the number of entries of results,
\* passed_count the number of them that passed, passed holds iff
\* passed_count = total, and an entry passed iff the trimmed stdout of its run
\* equals the trimmed expected string.
C30_SuiteAggregation ==
    /\ suite.test_cases # << >> =>
           /\ \A k \in DOMAIN suite.runs : suite.runs[k] = k
           /\ Len(suite.runs) <= Len(suite.test_cases)
    /\ (response # << >> /\ response[1].ok /\ response[1].test_results # << >>)
           => LET test_suite == response[1].test_results[1]
              IN  /\ test_suite.total = Len(test_suite.results)
                  /\ test_suite.passed_count
                         = Cardinality({k \in DOMAIN test_suite.results :
                                            test_suite.results[k].passed})
                  /\ test_suite.passed <=> test_suite.passed_count = test_suite.total
                  /\ \A k \in DOMAIN test_suite.results :
                         /\ test_suite.results[k].input = suite.test_cases[k].input
                         /\ test_suite.results[k].passed
                                <=> Trim(suite.outs[k].stdout)
                                        = Trim(suite.test_cases[k].expected)

\* The part of a game state that records progress: total XP, completed
\* levels, completed quests and unlocked levels.
ProgressOf(gs) ==
    [total_xp |-> gs.progression.total_xp,
     completed_levels |-> gs.progression.completed_levels,
     completed_quests |-> gs.progression.completed_quests,
     unlocked_levels |-> gs.progression.unlocked_levels]

\* The request in flight or last served is a code submission.
IsSubmission == submission.handler \in {"submit_code", "submit_quest_code"}

\* C31: a submission with test_only = true runs only test cases whose sample
\* flag is set and leaves total XP, completed levels, completed quests and
\* unlocked levels as they were when it arrived; a submission that completed
\* a level or a quest has test_only = false and all of its test cases passed.
C31_TryRunNeverChangesProgression ==
    /\ (IsSubmission /\ submission.test_only)
           => /\ \A k \in DOMAIN suite.test_cases : suite.test_cases[k].sample
              /\ ProgressOf(game_state) = ProgressOf(suite.before)
              /\ ProgressOf(suite.local) = ProgressOf(suite.before)
    /\ (/\ IsSubmission
        /\ \/ ProgressOf(game_state).completed_levels
                  # ProgressOf(suite.before).completed_levels
           \/ ProgressOf(game_state).completed_quests
                  # ProgressOf(suite.before).completed_quests)
           => /\ ~submission.test_only
              /\ Len(suite.results) = Len(suite.test_cases)
              /\ \A k \in DOMAIN suite.results : suite.results[k].passed

(***************************************************************************)
(* Further claims about compile_and_run_with_input, checked under Spec and *)
(* SpecPair.                                                               *)
(***************************************************************************)

\* C32: within one call the compiler is started at most once and the
\* executor is invoked, and a child created for the binary, at most once; a
\* compile phase that ends goes on to the execution phase only when the
\* compiler exited with code 0 and otherwise ends the call; an execution phase
\* that ends, by exit, timeout or error, ends the call; and a call that has
\* returned starts nothing and keeps what it returned.
C32_NoRetry ==
    [][\A c \in Activations :
          /\ (calls'[c].gcc = "running" /\ calls[c].gcc # "running")
                 => calls[c].gcc = "none" /\ calls[c].pc = "created"
          /\ calls[c].gcc # "none" => calls'[c].gcc # "none"
          /\ (calls'[c].pc = "executing" /\ calls[c].pc # "executing")
                 => /\ calls[c].pc = "compiled"
                    /\ calls[c].executor = "none"
                    /\ calls[c].user = "none"
          /\ (calls'[c].user # "none" /\ calls[c].user = "none")
                 => calls[c].pc = "compiled" /\ calls[c].executor = "none"
          /\ calls[c].user # "none" => calls'[c].user # "none"
          /\ calls[c].executor # "none" => calls'[c].executor = calls[c].executor
          /\ (calls[c].pc = "compiling" /\ calls'[c].pc # "compiling")
                 => /\ calls'[c].pc \in {"compiled", "returned"}
                    /\ calls'[c].pc = "compiled" => calls'[c].gcc = "done"
          /\ (calls[c].pc = "compiled" /\ calls'[c].pc # "compiled")
                 => calls'[c].pc \in {"executing", "returned"}
          /\ (calls[c].pc = "executing" /\ calls'[c].pc # "executing")
                 => calls'[c].pc = "returned"
          /\ calls[c].pc = "returned"
                 => /\ calls'[c].pc = "returned"
                    /\ calls'[c].ret = calls[c].ret
                    /\ calls'[c].out = calls[c].out
                    /\ calls'[c].err = calls[c].err
      ]_vars

\* C32 witness: a call whose execution timed out has returned while the
\* compiler it started has ended and the one child it created still runs.
C32_Witness ==
    \E c \in Activations :
        /\ calls[c].pc = "returned"
        /\ calls[c].ret = "Ok"
        /\ calls[c].out.timed_out
        /\ calls[c].gcc = "done"
        /\ calls[c].user = "running"
        /\ calls[c].executor # "none"

\* The call returned an ExecutionOutput that no timeout shaped: neither the
\* compiler's nor the program's timeout fired.
ReturnedUntimed(c) ==
    /\ calls[c].pc = "returned"
    /\ calls[c].ret = "Ok"
    /\ ~calls[c].out.timed_out
    /\ calls[c].out.compile_error # << TimedOutResult.stderr >>

\* C33: two calls on the same compiler with the same source and the same
\* stdin, overlapping or not, that both returned an ExecutionOutput without a
\* timeout agree on stdout, compile_error and exit_code.
C33_Idempotent ==
    \A c, d \in Activations :
        (/\ ReturnedUntimed(c)
         /\ ReturnedUntimed(d)
         /\ calls[c].src = calls[d].src
         /\ calls[c].input = calls[d].input)
            => /\ calls[c].out.stdout = calls[d].out.stdout
               /\ calls[c].out.compile_error = calls[d].out.compile_error
               /\ calls[c].out.exit_code = calls[d].out.exit_code

\* C37: a call that went through sandbox_execute returns Err exactly when no
\* process was started for it (bwrap could not be spawned, or the blocking
\* task panicked), and then with the executor's error and no output; when the
\* wrapper ran and the program ended before the timeout it returns Ok with the
\* exit code, stdout and stderr of that process, a non-zero exit code
\* included.
C37_SpawnFailureIsNotProgramFailure ==
    \A c \in Activations :
        (calls[c].executor = "sandbox_execute" /\ calls[c].pc = "returned")
            => /\ calls[c].ret \in {"Ok", "Err"}
               /\ calls[c].ret = "Err" <=> calls[c].user = "none"
               /\ calls[c].ret = "Err"
                      => /\ calls[c].err \in {"Failed to spawn sandbox", "Task panicked"}
                         /\ calls[c].out = DefaultOutput
               /\ (calls[c].ret = "Ok" /\ ~calls[c].out.timed_out)
                      => LET outcome == RunOutcome(calls[c].image,
                                                   calls[c].child_filtered)
                         IN  /\ calls[c].user = "exited"
                             /\ calls[c].out.exit_code = ExitCode(outcome)
                             /\ calls[c].out.stdout = Stdout(calls[c].image, outcome)
                             /\ calls[c].out.stderr = Stderr(calls[c].image, outcome)
                             /\ calls[c].out.compile_error = << >>

\* C37 witness: under bubblewrap a program that exits with status 1 gives an
\* Ok result with exit code 1 and its output.
C37_Witness ==
    \E c \in Activations :
        /\ sandbox_mode = "Bubblewrap"
        /\ calls[c].executor = "sandbox_execute"
        /\ calls[c].pc = "returned"
        /\ calls[c].src = "fail"
        /\ calls[c].ret = "Ok"
        /\ calls[c].out.exit_code = << 1 >>
        /\ calls[c].out.stdout = "output of fail"

(***************************************************************************)
(* SpecProgress: any sequence of calls of the methods of GameState that    *)
(* change the progression (game/state.rs, game/progression.rs), made on    *)
(* GameState::new(). pcall records the last call: its arguments, what it   *)
(* returned (<< >> for no value or None) and the state it was made on.     *)
(***************************************************************************)
XpRewards == {20, 50}

\* A second table of prerequisites, with an XP threshold that is met with
\* equality and a level that is missing from the table.
OtherPrerequisites ==
    ("L02" :> Prerequisites(<< "L01" >>, << >>, 50))
    @@ ("L03" :> Prerequisites(<< >>, << "L01", "L02" >>, 0))

PrerequisiteTables == {get_prerequisites, OtherPrerequisites}

ProgressLevels == {"L01", "L02", "L03"}

\* The quests completed, as (level, quest): two quests of one level, and a
\* quest of another level that has the id of one of them.
ProgressQuests == {<< "L03", "Q1" >>, << "L03", "Q2" >>, << "L02", "Q1" >>}

QuestXpRewards == {30}

MaxQuests == 2

PCall(op, level_id, quest_id, xp_reward, total_quests, prerequisites, ret, before) ==
    [op |-> op, level_id |-> level_id, quest_id |-> quest_id, xp_reward |-> xp_reward,
     total_quests |-> total_quests, prerequisites |-> prerequisites, ret |-> ret,
     before |-> before]

ProgressInit ==
    /\ game_state = GameStateNew
    /\ pcall = PCall("new", "", "", 0, 0, << >>, << >>, GameStateNew)

ProgressFrame ==
    UNCHANGED <<filterVars, pipeVars, harnessVars, submission, suite, response,
                limiterVars, sessionVars>>

StartLevel(level_id) ==
    /\ game_state' = start_level(game_state, level_id)
    /\ pcall' = PCall("start_level", level_id, "", 0, 0, << >>, << >>, game_state)
    /\ ProgressFrame

CompleteLevel(xp_reward) ==
    /\ game_state' = complete_level(game_state, xp_reward).gs
    /\ pcall' = PCall("complete_level",
                      IF game_state.current_level_id # << >>
                      THEN game_state.current_level_id[1] ELSE "",
                      "", xp_reward, 0, << >>,
                      << complete_level(game_state, xp_reward).xp >>, game_state)
    /\ ProgressFrame

CompleteQuest(level_id, quest_id, xp_reward) ==
    /\ game_state' = complete_quest(game_state, level_id, quest_id, xp_reward).gs
    /\ pcall' = PCall("complete_quest", level_id, quest_id, xp_reward, 0, << >>,
                      << complete_quest(game_state, level_id, quest_id, xp_reward).xp >>,
                      game_state)
    /\ ProgressFrame

UpdateUnlockedLevels(prerequisites) ==
    /\ game_state' = update_unlocked_levels(game_state, prerequisites)
    /\ pcall' = PCall("update_unlocks", "", "", 0, 0, prerequisites, << >>, game_state)
    /\ ProgressFrame

MaybeCompleteLevel(total_quests) ==
    /\ game_state' = maybe_complete_level(game_state, total_quests).gs
    /\ pcall' = PCall("maybe_complete_level",
                      IF game_state.current_level_id # << >>
                      THEN game_state.current_level_id[1] ELSE "",
                      "", 0, total_quests, << >>,
                      maybe_complete_level(game_state, total_quests).ret, game_state)
    /\ ProgressFrame

ProgressNext ==
    \/ \E level_id \in ProgressLevels : StartLevel(level_id)
    \/ \E xp_reward \in XpRewards : CompleteLevel(xp_reward)
    \/ \E quest \in ProgressQuests, xp_reward \in QuestXpRewards :
           CompleteQuest(quest[1], quest[2], xp_reward)
    \/ \E prerequisites \in PrerequisiteTables : UpdateUnlockedLevels(prerequisites)
    \/ \E total_quests \in 0..MaxQuests : MaybeCompleteLevel(total_quests)

ProgressSpecInit ==
    /\ ProgressInit
    /\ submission = "none" /\ suite = "none" /\ response = "none"
    /\ HarnessIdle /\ FilterInit /\ PipeIdle /\ LimiterIdle /\ SessionIdle

SpecProgress == ProgressSpecInit /\ [][ProgressNext]_vars

ProgressTypeOK == game_state.progression.total_xp >= 0

(***************************************************************************)
(* Claims about the progression, checked under SpecProgress.               *)
(***************************************************************************)

\* C34: a complete_level call for a level that is not yet completed returns
\* its reward, adds it to total_xp and adds the level to the completed
\* levels; for a level already completed it returns 0 and leaves total_xp and
\* the completed sets as they were. The same holds for complete_quest and the
\* quests completed within the level.
C34_ReplayAwardsNoXp ==
    LET b == pcall.before.progression
        a == game_state.progression
    IN  /\ (pcall.op = "complete_level" /\ pcall.level_id # "")
               => IF pcall.level_id \notin b.completed_levels
                  THEN /\ pcall.ret = << pcall.xp_reward >>
                       /\ a.total_xp = b.total_xp + pcall.xp_reward
                       /\ a.completed_levels = b.completed_levels \cup {pcall.level_id}
                       /\ a.completed_quests = b.completed_quests
                  ELSE /\ pcall.ret = << 0 >>
                       /\ a.total_xp = b.total_xp
                       /\ a.completed_levels = b.completed_levels
                       /\ a.completed_quests = b.completed_quests
        /\ pcall.op = "complete_quest"
               => IF pcall.quest_id \notin b.completed_quests[pcall.level_id]
                  THEN /\ pcall.ret = << pcall.xp_reward >>
                       /\ a.total_xp = b.total_xp + pcall.xp_reward
                       /\ a.completed_quests[pcall.level_id]
                              = b.completed_quests[pcall.level_id] \cup {pcall.quest_id}
                       /\ \A l \in LevelIds \ {pcall.level_id} :
                              a.completed_quests[l] = b.completed_quests[l]
                       /\ a.completed_levels = b.completed_levels
                  ELSE /\ pcall.ret = << 0 >>
                       /\ a.total_xp = b.total_xp
                       /\ a.completed_quests = b.completed_quests
                       /\ a.completed_levels = b.completed_levels

\* C34 witness: a level that had earned its XP is completed again, for a
\* different reward, by a player who has also completed a quest.
C34_Witness ==
    /\ pcall.op = "complete_level"
    /\ pcall.level_id \in pcall.before.progression.completed_levels
    /\ pcall.before.progression.level_xp[pcall.level_id] # << >>
    /\ pcall.before.progression.level_xp[pcall.level_id] # << pcall.xp_reward >>
    /\ pcall.ret = << 0 >>
    /\ "Q1" \in game_state.progression.completed_quests["L03"]
    /\ game_state.progression.total_xp > 0

\* The prerequisites are met by the completed levels and the XP: the XP
\* threshold is reached, every level of requires_all is completed, and one
\* level of requires_any is completed when there is any.
PrerequisitesMet(prereqs, completed, xp) ==
    /\ xp >= prereqs.min_xp
    /\ Range(prereqs.requires_all) \subseteq completed
    /\ Len(prereqs.requires_any) > 0 => Range(prereqs.requires_any) \cap completed # {}

\* C35: L01 is unlocked in every state reached from GameState::new(); after
\* update_unlocks a level is unlocked exactly if it was unlocked before or it
\* is a key of the table whose prerequisites are met; the call changes nothing
\* else of the progression; and no call removes a level from the unlocked
\* levels.
C35_LevelUnlocking ==
    LET b == pcall.before.progression
        a == game_state.progression
    IN  /\ "L01" \in a.unlocked_levels
        /\ b.unlocked_levels \subseteq a.unlocked_levels
        /\ pcall.op = "update_unlocks"
               => /\ \A l \in LevelIds :
                         l \in a.unlocked_levels
                             <=> \/ l \in b.unlocked_levels
                                 \/ /\ l \in DOMAIN pcall.prerequisites
                                    /\ PrerequisitesMet(pcall.prerequisites[l],
                                                        b.completed_levels, b.total_xp)
                  /\ a.completed_levels = b.completed_levels
                  /\ a.completed_quests = b.completed_quests
                  /\ a.total_xp = b.total_xp

\* C35 witness: update_unlocks unlocks L03, which needs L01, one of L02 and
\* L04, and 150 XP, while L04 stays out of a table that does not list it.
C35_Witness ==
    /\ pcall.op = "update_unlocks"
    /\ pcall.prerequisites = get_prerequisites
    /\ "L03" \notin pcall.before.progression.unlocked_levels
    /\ "L03" \in game_state.progression.unlocked_levels
    /\ "L04" \notin game_state.progression.completed_levels

\* C39: maybe_complete_level completes the current level exactly when there
\* is one, the quests completed for it number at least total_quests, and it is
\* not yet completed: it then returns Some(0), adds the level to the completed
\* levels, sets the phase to LevelComplete and changes neither the XP nor
\* anything else of the progression; otherwise it returns None and the game
\* state is as it was.
C39_MaybeCompleteLevel ==
    pcall.op = "maybe_complete_level"
        => LET b == pcall.before
               a == game_state
               completes ==
                   /\ b.current_level_id # << >>
                   /\ Cardinality(b.progression.completed_quests[b.current_level_id[1]])
                          >= pcall.total_quests
                   /\ b.current_level_id[1] \notin b.progression.completed_levels
           IN  IF completes
               THEN /\ pcall.ret = << 0 >>
                    /\ a.progression.completed_levels
                           = b.progression.completed_levels \cup {b.current_level_id[1]}
                    /\ a.game_phase = "LevelComplete"
                    /\ a.progression.total_xp = b.progression.total_xp
                    /\ a.player_xp = b.player_xp
                    /\ a.progression.level_xp = b.progression.level_xp
                    /\ a.progression.quest_xp = b.progression.quest_xp
                    /\ a.progression.completed_quests = b.progression.completed_quests
                    /\ a.progression.unlocked_levels = b.progression.unlocked_levels
                    /\ a.current_level_id = b.current_level_id
               ELSE /\ pcall.ret = << >>
                    /\ a = b

\* C39 witness: the level of two quests is completed by the call made after
\* its second quest, by a player who has XP.
C39_Witness ==
    /\ pcall.op = "maybe_complete_level"
    /\ pcall.total_quests = 2
    /\ pcall.level_id = "L03"
    /\ pcall.before.progression.completed_quests["L03"] = {"Q1", "Q2"}
    /\ pcall.ret = << 0 >>
    /\ game_state.progression.total_xp > 0
    /\ "L03" \in game_state.progression.completed_levels

(***************************************************************************)
(* SpecLimiter: RateLimiter::check_rate_limit                              *)
(* (src-api/src/auth_middleware/rate_limit.rs), called by callers that     *)
(* run in parallel. A call reads Instant::now(), then takes the entry of   *)
(* its identifier in the DashMap and holds it until it returns, so the     *)
(* rest of the call is one step; calls take the entry in any order.        *)
(***************************************************************************)
\* window_duration: Duration::from_secs(60)
window_duration == 60

\* The clock advances in steps of half a window.
TickSecs == window_duration \div 2

MaxTicks == 3

MaxChecks == 4

Callers == {"c1", "c2"}

\* The identifiers, and the limit the callers pass for each.
Limits == ("user:1" :> 2) @@ ("auth:ip" :> 1)

Identifiers == DOMAIN Limits

RateLimitEntry(count, window_start) == [count |-> count, window_start |-> window_start]

\* Instant::duration_since, which saturates to zero.
duration_since(later, earlier) == IF later >= earlier THEN later - earlier ELSE 0

\* now.duration_since(entry.window_start) >= self.window_duration
WindowExpired(elapsed) == elapsed >= window_duration

\* The mutation: the limit itself is still allowed.
LimitExceededAbove(count, limit) == count > limit

\* entry.count >= limit
LimitExceeded(count, limit) == count >= limit

\* check_rate_limit from the entry() call on: the entries after the call and
\* its result, Ok(remaining) or Err(retry_after).
check_rate_limit(ents, identifier, limit, read_now) ==
    LET entry == IF ents[identifier] = << >> THEN RateLimitEntry(0, read_now)
                 ELSE ents[identifier][1]
        elapsed == duration_since(read_now, entry.window_start)
    IN  IF WindowExpired(elapsed)
        THEN [entries |-> [ents EXCEPT ![identifier] = << RateLimitEntry(1, read_now) >>],
              ok |-> TRUE, val |-> limit - 1]
        ELSE IF LimitExceeded(entry.count, limit)
        THEN [entries |-> [ents EXCEPT ![identifier] = << entry >>],
              ok |-> FALSE, val |-> window_duration - elapsed]
        ELSE [entries |-> [ents EXCEPT ![identifier] =
                              << RateLimitEntry(entry.count + 1, entry.window_start) >>],
              ok |-> TRUE, val |-> limit - (entry.count + 1)]

IdleCheck == [pc |-> "idle", identifier |-> "", now |-> 0]

\* RateLimiter::new
LimiterInit ==
    /\ entries = [i \in Identifiers |-> << >>]
    /\ instant = 0
    /\ checks = [c \in Callers |-> IdleCheck]
    /\ rl_log = << >>

LimiterFrame == UNCHANGED <<filterVars, pipeVars, graderVars, pcall, sessionVars>>

\* Time passes.
LimiterTick ==
    /\ instant < MaxTicks * TickSecs
    /\ instant' = instant + TickSecs
    /\ UNCHANGED <<entries, checks, rl_log>>
    /\ LimiterFrame

\* let now = Instant::now();
ReadNow(c, identifier) ==
    /\ checks[c].pc = "idle"
    /\ Len(rl_log) + Cardinality({d \in Callers : checks[d].pc = "read"}) < MaxChecks
    /\ checks' = [checks EXCEPT ![c] = [pc |-> "read", identifier |-> identifier,
                                        now |-> instant]]
    /\ UNCHANGED <<entries, instant, rl_log>>
    /\ LimiterFrame

\* The call takes the entry and runs to its return. The log keeps, for the
\* call, the instant it had read, the window it was counted in and its result.
CheckRateLimit(c) ==
    /\ checks[c].pc = "read"
    /\ LET identifier == checks[c].identifier
           r == check_rate_limit(entries, identifier, Limits[identifier], checks[c].now)
       IN  /\ entries' = r.entries
           /\ rl_log' = Append(rl_log,
                  [identifier |-> identifier, now |-> checks[c].now,
                   window_start |-> r.entries[identifier][1].window_start,
                   ok |-> r.ok, val |-> r.val])
    /\ checks' = [checks EXCEPT ![c] = IdleCheck]
    /\ UNCHANGED instant
    /\ LimiterFrame

LimiterNext ==
    \/ LimiterTick
    \/ \E c \in Callers, identifier \in Identifiers : ReadNow(c, identifier)
    \/ \E c \in Callers : CheckRateLimit(c)

LimiterSpecInit ==
    /\ LimiterInit
    /\ FilterInit /\ PipeIdle /\ GraderIdle /\ ProgressIdle /\ SessionIdle

SpecLimiter == LimiterSpecInit /\ [][LimiterNext]_vars

LimiterTypeOK == Len(rl_log) <= MaxChecks

(***************************************************************************)
(* Claims about the rate limiter, checked under SpecLimiter.               *)
(***************************************************************************)

\* The calls up to the i-th that were counted in the window of the i-th.
InWindowUpTo(i) ==
    {j \in 1..i : /\ rl_log[j].identifier = rl_log[i].identifier
                  /\ rl_log[j].window_start = rl_log[i].window_start}

AllowedUpTo(i) == Cardinality({j \in InWindowUpTo(i) : rl_log[j].ok})

\* The calls for the identifier of the i-th that held the entry before it.
EarlierCalls(i) == {j \in 1..(i - 1) : rl_log[j].identifier = rl_log[i].identifier}

\* C36: for each identifier, in the order in which the calls hold the entry,
\* concurrent or not: a window starts with the first call and with the first
\* call that comes 60 seconds or more after the window's start, and that call
\* is allowed with remaining = limit - 1; within a window at most `limit`
\* calls are allowed, the k-th of them returns remaining = limit - k, and
\* every call after them is rejected with retry-after = 60 - the seconds
\* elapsed in the window, a value in 1..60.
C36_RateLimit ==
    \A i \in DOMAIN rl_log :
        LET e == rl_log[i]
            limit == Limits[e.identifier]
            k == AllowedUpTo(i)
            opens ==
                \/ EarlierCalls(i) = {}
                \/ LET last == rl_log[CHOOSE j \in EarlierCalls(i) :
                                          \A h \in EarlierCalls(i) : h <= j]
                   IN  e.now >= last.window_start + window_duration
        IN  /\ k <= limit
            /\ e.ok => e.val = limit - k
            /\ ~e.ok => /\ k = limit
                        /\ e.val = window_duration
                                       - duration_since(e.now, e.window_start)
                        /\ e.val \in 1..window_duration
            /\ opens => e.ok /\ e.window_start = e.now /\ k = 1
            /\ ~opens =>
                   /\ \E j \in EarlierCalls(i) :
                          rl_log[j].window_start = e.window_start
                   /\ e.ok <=> Cardinality({j \in InWindowUpTo(i) \ {i} : rl_log[j].ok})
                                   < limit

\* C36 witness: a call that read the clock before another call opened a new
\* window is counted in that window, and a later call in the window is
\* rejected.
C36_Witness ==
    \E i, j \in DOMAIN rl_log :
        /\ i < j
        /\ rl_log[i].identifier = "user:1"
        /\ rl_log[j].identifier = "user:1"
        /\ rl_log[i].now < rl_log[i].window_start
        /\ rl_log[i].window_start >= window_duration
        /\ rl_log[i].ok
        /\ rl_log[j].window_start = rl_log[i].window_start
        /\ ~rl_log[j].ok

(***************************************************************************)
(* SpecSession: requests of one user that overlap (src-api/src/main.rs).   *)
(* game_state is the user's entry of AppState.sessions, db the game_state  *)
(* column of the user's session row, reqs the requests: where each is, its *)
(* payload, its own clone of the state, the XP complete_quest returned to  *)
(* it and whether it failed. The session starts as load_level leaves it    *)
(* for a player who has completed L01 and L02 and has loaded L03.          *)
(***************************************************************************)
MaxRequests == 2

Requests == 1..MaxRequests

SessionStart ==
    LET l1 == update_unlocked_levels(
                  complete_level(start_level(GameStateNew, "L01"),
                                 LevelTable["L01"].xp_reward).gs, get_prerequisites)
        l2 == update_unlocked_levels(
                  complete_level(update_unlocked_levels(start_level(l1, "L02"),
                                                        get_prerequisites),
                                 LevelTable["L02"].xp_reward).gs, get_prerequisites)
    IN  update_unlocked_levels(start_level(l2, "L03"), get_prerequisites)

SessionQuestIds ==
    LET quests == get_quests(LevelTable[SessionStart.current_level_id[1]])
    IN  {quests[i].id : i \in DOMAIN quests}

PlayerActions == {"Pause", "Resume"}

SessionRequest(pc, handler, quest_id, test_only, action, local, xp_earned, failed) ==
    [pc |-> pc, handler |-> handler, quest_id |-> quest_id, test_only |-> test_only,
     action |-> action, local |-> local, xp_earned |-> xp_earned, failed |-> failed]

SessionInit ==
    /\ game_state = SessionStart
    /\ db = SessionStart
    /\ reqs = [r \in Requests |->
                  SessionRequest("idle", "", "", FALSE, "", SessionStart, << >>, FALSE)]

SessionFrame ==
    UNCHANGED <<filterVars, pipeVars, harnessVars, submission, suite, response, pcall,
                limiterVars>>

\* get_or_create_session, the fast path: the handler gets a clone of the
\* cached state.
GetOrCreateSession(r, handler, quest_id, test_only, action) ==
    /\ reqs[r].pc = "idle"
    /\ reqs' = [reqs EXCEPT ![r] = SessionRequest("read", handler, quest_id, test_only, action,
                                           game_state, << >>, FALSE)]
    /\ UNCHANGED <<game_state, db>>
    /\ SessionFrame

\* submit_quest_code from the end of the loop over the test cases: on SUBMIT
\* with all tests passed, complete the quest on the handler's own state,
\* maybe the level, refresh the unlocked levels, and persist_session up to
\* its await: cache_session. Any other outcome returns without a write.
SubmitQuestCodeFinish(r, all_passed) ==
    LET rq == reqs[r]
        level_id == rq.local.current_level_id[1]
        quests == get_quests(LevelTable[level_id])
        total_quests == Len(quests)
        quest == quests[CHOOSE i \in DOMAIN quests : quests[i].id = rq.quest_id]
        done == complete_quest(rq.local, level_id, rq.quest_id, quest.xp_reward)
        quests_remaining ==
            saturating_sub(total_quests,
                           get_completed_quest_count(done.gs.progression, level_id))
        level_done == IF quests_remaining = 0
                      THEN maybe_complete_level(done.gs, total_quests)
                      ELSE [gs |-> done.gs, ret |-> << >>]
        final == [update_unlocked_levels(level_done.gs, get_prerequisites)
                     EXCEPT !.active_quest_id = << >>]
    IN  /\ rq.pc = "read"
        /\ rq.handler = "submit_quest_code"
        /\ IF all_passed /\ ~rq.test_only
           THEN /\ reqs' = [reqs EXCEPT ![r].pc = "persisting", ![r].local = final,
                                        ![r].xp_earned = << done.xp >>]
                /\ game_state' = final
           ELSE /\ reqs' = [reqs EXCEPT ![r].pc = "done"]
                /\ UNCHANGED game_state
        /\ UNCHANGED db
        /\ SessionFrame

\* persist_session after cache_session: the awaited update of the row, which
\* stores the handler's state or fails.
UpdateUserSessionState(r, ok) ==
    /\ reqs[r].pc = "persisting"
    /\ reqs' = [reqs EXCEPT ![r].pc = "done", ![r].failed = ~ok]
    /\ db' = IF ok THEN reqs[r].local ELSE db
    /\ UNCHANGED game_state
    /\ SessionFrame

\* process_action after get_or_create_session: the action on the handler's own
\* state, then cache_session.
ProcessAction(r) ==
    LET rq == reqs[r]
        acted == IF rq.action = "Pause"
                 THEN [rq.local EXCEPT !.game_phase = "Paused"]
                 ELSE IF rq.local.game_phase \in {"Paused", "Coding", "LevelComplete"}
                 THEN [rq.local EXCEPT !.game_phase = "Playing"]
                 ELSE rq.local
    IN  /\ rq.pc = "read"
        /\ rq.handler = "process_action"
        /\ reqs' = [reqs EXCEPT ![r].pc = "done", ![r].local = acted]
        /\ game_state' = acted
        /\ UNCHANGED db
        /\ SessionFrame

SessionNext ==
    \/ \E r \in Requests, quest_id \in SessionQuestIds, test_only \in BOOLEAN :
           GetOrCreateSession(r, "submit_quest_code", quest_id, test_only, "")
    \/ \E r \in Requests, action \in PlayerActions :
           GetOrCreateSession(r, "process_action", "", FALSE, action)
    \/ \E r \in Requests, all_passed \in BOOLEAN : SubmitQuestCodeFinish(r, all_passed)
    \/ \E r \in Requests, ok \in BOOLEAN : UpdateUserSessionState(r, ok)
    \/ \E r \in Requests : ProcessAction(r)

SessionSpecInit ==
    /\ SessionInit
    /\ submission = "none" /\ suite = "none" /\ response = "none"
    /\ HarnessIdle /\ FilterInit /\ PipeIdle /\ ProgressIdle /\ LimiterIdle

SpecSession == SessionSpecInit /\ [][SessionNext]_vars

(***************************************************************************)
(* The claim about the session cache, checked under SpecSession.           *)
(***************************************************************************)

\* The quests for which a request has called complete_quest.
QuestsSubmitted == {reqs[r].quest_id : r \in {x \in Requests : reqs[x].xp_earned # << >>}}

RECURSIVE RewardOf(_)
RewardOf(quest_ids) ==
    IF quest_ids = {} THEN 0
    ELSE LET q == CHOOSE x \in quest_ids : TRUE
             quests == get_quests(LevelTable[SessionStart.current_level_id[1]])
         IN  quests[CHOOSE i \in DOMAIN quests : quests[i].id = q].xp_reward
             + RewardOf(quest_ids \ {q})

Quiescent == \A r \in Requests : reqs[r].pc \in {"idle", "done"} /\ ~reqs[r].failed

\* C38: once the requests of the user have ended (none failed), the cached
\* and the persisted session both hold every quest that a request completed,
\* and the XP of each of these quests once, whether or not the requests
\* overlapped.
C38_NoLostUpdates ==
    Quiescent
        => \A gs \in {game_state, db} :
               /\ QuestsSubmitted
                      \subseteq gs.progression.completed_quests[SessionStart.current_level_id[1]]
               /\ gs.progression.total_xp
                      = SessionStart.progression.total_xp + RewardOf(QuestsSubmitted)

====
